---- MODULE Spec2Model ----
(***************************************************************************)
(* Model of the workflow orchestration core of video_keev:                 *)
(* WorkflowManager (src/src/workflow/manager.py) driving the frame         *)
(* extractor, the preprocessor, the local replacement stage, the remote    *)
(* ComfyUI client (src/src/api/client.py) and the video composer.          *)
(*                                                                         *)
(* The fields of the WorkflowManager object are the record `self`.  A      *)
(* thread that calls start_workflow is a "starter"; its position in the    *)
(* code is pc[t].  cancel_workflow and get_status are called from other    *)
(* threads, so every read and every write of a field of `self` is a step   *)
(* of its own: the manager takes no lock.                                  *)
(***************************************************************************)
EXTENDS Integers, Sequences, FiniteSets, TLC

\* ---------------------------------------------------------------- bounds
MaxStarts == 2      \* start_workflow calls made on the instance
MaxFrames == 1      \* frames the extractor can return
MaxStamp  == 3      \* writes of a timestamp field that are told apart
MaxRate   == 3      \* native and requested frame rates of a video
MaxSource == 4      \* frames a source video holds
MaxCap    == 2      \* values of max_frames
MaxPool   == 3      \* frames handed to preprocess_frames
MaxWorkers == 2     \* worker threads of the preprocessing pool
MaxCleanups == 2    \* cleanup calls made on the instance
MaxCompose == 3     \* frames handed to frames_to_video
MaxBatch  == 2      \* frames handed to process_frames_batch

\* ------------------------------------------------------------- constants
None == 0           \* Python None for ids and timestamps
NoPath == ""        \* Python None for paths

STATUS_IDLE                 == "idle"
STATUS_PREPARING            == "preparing"
STATUS_EXTRACTING_FRAMES    == "extracting_frames"
STATUS_PREPROCESSING_FRAMES == "preprocessing_frames"
STATUS_LOCAL_REPLACEMENT    == "local_replacement_preprocessing"
STATUS_UPLOADING_FRAMES     == "uploading_frames"
STATUS_EXECUTING_WORKFLOW   == "executing_workflow"
STATUS_DOWNLOADING_RESULTS  == "downloading_results"
STATUS_COMPOSING_VIDEO      == "composing_video"
STATUS_COMPLETED            == "completed"
STATUS_FAILED               == "failed"
STATUS_CANCELED             == "canceled"

\* the statuses cancel_workflow refuses to cancel
TerminalStatuses == {STATUS_COMPLETED, STATUS_FAILED, STATUS_CANCELED}

\* the values of the 'status' field of a remote task
RemoteStatuses ==
    {"queued", "running", "completed", "failed", "canceled", "unknown"}

\* the 'error' entry of an answer of get_task_status, "none" when the
\* answer has no such entry
RemoteErrors == {"none", "out of memory"}

\* the 'replaced_frames' entry of an answer: "absent" when the answer has
\* no such entry, a list of frames, or a value that has no length (null)
ReplacedFrames == {"absent", "frames", "null"}

\* the answers of get_task_status; an error entry comes with the statuses
\* failed and canceled only, a replaced_frames entry with completed only
RemoteReplies ==
    {[status |-> st, error |-> "none", replaced_frames |-> "absent"] :
            st \in RemoteStatuses}
    \cup {[status |-> st, error |-> e, replaced_frames |-> "absent"] :
            st \in {"failed", "canceled"}, e \in RemoteErrors}
    \cup {[status |-> "completed", error |-> "none", replaced_frames |-> r] :
            r \in ReplacedFrames}

\* the threads that may call start_workflow
MainStarter   == "main"
SecondStarter == "second"
Starters      == {MainStarter, SecondStarter}

\* the input videos a caller passes; only one of them exists on disk
ExistingVideo == "input.mp4"
MissingVideo  == "missing.mp4"
Inputs        == {ExistingVideo, MissingVideo}

\* a second video on disk, one frame longer than the first
LongVideo     == "long.mp4"

\* workflow_config as far as the core reads it: whether the 'replacement'
\* key is present and which categories have enabled = True
\* the 'preprocess' group of a workflow_config: whether the key is there,
\* and its entries enhance_features and preserve_details ("unset" when the
\* group has no such entry)
Group(present, enhance_features, preserve_details) ==
    [present |-> present, enhance_features |-> enhance_features,
     preserve_details |-> preserve_details]

NoGroup == Group(FALSE, "unset", "unset")

Config(key, person, background, product) ==
    [replacement |-> key, person |-> person,
     background |-> background, product |-> product, preprocess |-> NoGroup]

\* configurations that carry a 'preprocess' group, with and without an
\* enabled category
GroupConfigs ==
    {[c EXCEPT !.preprocess = g] :
        c \in {Config(FALSE, FALSE, FALSE, FALSE),
               Config(TRUE, TRUE, FALSE, FALSE)},
        g \in {NoGroup, Group(TRUE, "unset", "unset"),
               Group(TRUE, "False", "True")}}

Configs ==
    { Config(FALSE, FALSE, FALSE, FALSE),
      Config(TRUE,  FALSE, FALSE, FALSE),
      Config(TRUE,  TRUE,  FALSE, FALSE),
      Config(TRUE,  FALSE, FALSE, TRUE) }

VARIABLES
    self,               \* the fields of the WorkflowManager instance
    pc,                 \* pc[t]: position of starter t in start_workflow
    arg_input,          \* arg_input[t]: the input_video argument
    arg_config,         \* arg_config[t]: the workflow_config argument
    has_replacement,    \* local has_replacement of _execute_workflow_steps
    processed_dir,      \* frames present in the call's processed_frames dir
    result_frame_paths, \* local result_frame_paths
    exc,                \* the exception being propagated, "none" if none
    outcome,            \* how the last call of t ended
    ret,                \* the dictionary start_workflow returned
    visited,            \* the values the call has written to self.status
    logged,             \* the messages the call has passed to logger.error
    calls,              \* number of start_workflow calls made so far
    uuid_count,         \* number of uuid4 values drawn so far
    fs_dirs,            \* the working directories present on disk
    fs_output,          \* the output videos on disk and the session of each
    remote_tasks,       \* number of tasks the remote service has accepted
    remote_cancels,     \* task ids for which a cancel request was sent
    cpc,                \* position of the cancelling thread
    cancel_result,      \* 'success' of the last cancel_workflow result
    cancel_sent,        \* the last cancel_workflow sent a remote cancel
    cancel_raised,      \* ... and that remote cancel raised
    cancel_workflow_id, \* 'workflow_id' of the last cancel_workflow result
    task_status,        \* local task_status of wait_for_task_completion
    requests,           \* the kinds of request the call has sent to the
                        \* remote service
    uploaded,           \* the task id and the frames of the call's upload
    client_closed,      \* the HTTP session was closed by cleanup
    cleanups,           \* number of cleanup calls made so far
    last_cleanup,       \* argument and exception of the last cleanup call
    fn,                 \* the call of a frame function under study
    cli,                \* the replicate command of main.py: its position,
                        \* its arguments and its exit code
    gs                  \* the thread that calls get_status: its position,
                        \* its status_info and the exception it raised

starterVars == <<pc, arg_input, arg_config, has_replacement, processed_dir,
                 result_frame_paths, exc, outcome, ret, visited, logged>>
envVars     == <<calls, uuid_count, fs_dirs, fs_output, remote_tasks,
                 remote_cancels>>
cancelVars  == <<cpc, cancel_result, cancel_sent, cancel_raised,
                 cancel_workflow_id>>
remoteVars  == <<task_status, requests, uploaded>>
cleanupVars == <<client_closed, cleanups, last_cleanup>>
fnVars      == <<fn>>
cliVars     == <<cli>>
readerVars  == <<gs>>
vars        == <<self, starterVars, envVars, cancelVars, remoteVars,
                 cleanupVars, fnVars, cliVars, readerVars>>

\* what a step of a function called on its own leaves alone
ManagerVars == <<self, starterVars, envVars, cancelVars, remoteVars,
                 cleanupVars, cliVars, readerVars>>

\* --------------------------------------------------------------- helpers
Min(a, b) == IF a < b THEN a ELSE b
Max(a, b) == IF a > b THEN a ELSE b

\* the elements of a set of integers in increasing order
RECURSIVE Sorted(_)
Sorted(S) ==
    IF S = {} THEN <<>>
    ELSE LET least == CHOOSE x \in S : \A y \in S : x <= y
         IN  <<least>> \o Sorted(S \ {least})

\* time.time(): a timestamp that differs from the one it overwrites.  A
\* timestamp field holds the number of times it was written since
\* _reset_state: None (0) when it was never written, 1 after exactly one
\* write, and beyond MaxStamp writes it alternates between the last two
\* values, so that every write changes the field.
Now(previous) ==
    IF previous < MaxStamp THEN previous + 1 ELSE MaxStamp - 1

\* a frame file: the index of the frame and the directory that holds it
Frame(i, d) == [idx |-> i, dir |-> d]

Last(s) == s[Len(s)]

\* all orderings of all subsets of the elements of a sequence without
\* repetition, as sequences
RECURSIVE Orderings(_)
Orderings(S) ==
    IF S = {} THEN {<<>>}
    ELSE LET sub == UNION {Orderings(S \ {x}) : x \in S}
         IN  sub \cup UNION {{<<x>> \o o : o \in Orderings(S \ {x})} : x \in S}

Range(s) == {s[i] : i \in DOMAIN s}

\* ------------------------------------------ methods of WorkflowManager
\* the object after __init__
InitialManager ==
    [workflow_id |-> None, status |-> STATUS_IDLE, progress |-> 0,
     start_time |-> None, end_time |-> None, working_dir |-> None,
     input_video_path |-> NoPath, output_video_path |-> NoPath,
     frame_paths |-> <<>>, processed_frame_paths |-> <<>>, task_id |-> None]

\* a faulty variant of _reset_state that leaves the task id of the
\* previous session
reset_state_keeps_task_id(m) == [InitialManager EXCEPT !.task_id = m.task_id]

\* _reset_state: every field back to its initial value
reset_state(m) == InitialManager

\* _update_status
update_status(m, st) == [m EXCEPT !.status = st]

\* _update_progress: clamps to [0, 100]
update_progress(m, p) == [m EXCEPT !.progress = Min(100, Max(0, p))]

\* a faulty variant of _set_failed_state that leaves the status alone
set_failed_status_skipped(m) == m

\* _set_failed_state, first assignment
set_failed_status(m) == [m EXCEPT !.status = STATUS_FAILED]

\* _set_failed_state, second assignment
set_failed_end_time(m) == [m EXCEPT !.end_time = Now(m.end_time)]

\* a faulty variant that takes the presence of the 'replacement' key for
\* an enabled category
HasReplacement_key_only(cfg) == cfg.replacement

\* has_replacement of _execute_workflow_steps
HasReplacement(cfg) ==
    IF cfg.replacement
    THEN cfg.person \/ cfg.background \/ cfg.product
    ELSE FALSE

\* the output path start_workflow derives from the input video's name
OutputPath(input) ==
    IF input = ExistingVideo THEN "input_replicated.mp4"
    ELSE IF input = LongVideo THEN "long_replicated.mp4"
    ELSE "missing_replicated.mp4"

\* status_info of get_status
StatusInfo(m) ==
    [workflow_id |-> m.workflow_id, status |-> m.status,
     progress |-> m.progress, input_video |-> m.input_video_path,
     output_video |-> m.output_video_path, task_id |-> m.task_id,
     started_at |-> m.start_time,
     ended_at |-> IF m.start_time # None THEN m.end_time ELSE None]

\* the dictionary start_workflow returns
StartResult(m) ==
    [workflow_id |-> m.workflow_id, status |-> m.status,
     input_video |-> m.input_video_path, output_video |-> m.output_video_path]

NoResult == [workflow_id |-> None, status |-> "none",
             input_video |-> NoPath, output_video |-> NoPath]

\* no answer of get_task_status held
NoReply == [status |-> "none", error |-> "none", replaced_frames |-> "absent"]

\* no upload made
NoUpload == [task_id |-> None, frames |-> <<>>]

\* no cleanup call made
NoCleanup == [keep_results |-> TRUE, raised |-> "none"]

\* what status_info holds before get_status has read a field
NoInfo ==
    [workflow_id |-> None, status |-> "none", progress |-> 0,
     input_video |-> NoPath, output_video |-> NoPath, task_id |-> None,
     started_at |-> None, ended_at |-> None, duration |-> "none"]

\* no get_status call is running
NoReader == [at |-> "idle", info |-> NoInfo, raised |-> "none"]

\* the replicate command is not running
NoCommand == [at |-> "none"]

\* no frame function is being called
NoCall == [op |-> "none"]

\* --------------------------------------------------------------- Init
Init ==
    /\ self = InitialManager
    /\ pc = [t \in Starters |-> "idle"]
    /\ arg_input = [t \in Starters |-> ExistingVideo]
    /\ arg_config = [t \in Starters |-> Config(FALSE, FALSE, FALSE, FALSE)]
    /\ has_replacement = [t \in Starters |-> FALSE]
    /\ processed_dir = [t \in Starters |-> {}]
    /\ result_frame_paths = [t \in Starters |-> <<>>]
    /\ exc = [t \in Starters |-> "none"]
    /\ outcome = [t \in Starters |-> "none"]
    /\ ret = [t \in Starters |-> NoResult]
    /\ visited = [t \in Starters |-> <<>>]
    /\ logged = [t \in Starters |-> {}]
    /\ calls = 0
    /\ uuid_count = 0
    /\ fs_dirs = {}
    /\ fs_output = {}
    /\ remote_tasks = 0
    /\ remote_cancels = {}
    /\ cpc = "idle"
    /\ cancel_result = "none"
    /\ cancel_sent = FALSE
    /\ cancel_raised = FALSE
    /\ cancel_workflow_id = None
    /\ task_status = [t \in Starters |-> NoReply]
    /\ requests = [t \in Starters |-> {}]
    /\ uploaded = [t \in Starters |-> NoUpload]
    /\ client_closed = FALSE
    /\ cleanups = 0
    /\ last_cleanup = NoCleanup
    /\ gs = NoReader
    /\ fn = NoCall
    /\ cli = NoCommand

\* ------------------------------------------------- steps of a starter
\* ensure_directory on a directory below the working directory creates
\* the working directory as well (parents=True)
EnsureWorkingDir(m, dirs) ==
    IF m.working_dir = None THEN dirs ELSE dirs \cup {m.working_dir}

Goto(t, l) == pc' = [pc EXCEPT ![t] = l]

\* a write of self.status by starter t
WriteStatus(t, st) ==
    /\ self' = update_status(self, st)
    /\ visited' = [visited EXCEPT ![t] = Append(@, self'.status)]

\* an exception e is raised inside the try block of _execute_workflow_steps
RaiseInner(t, e) ==
    /\ exc' = [exc EXCEPT ![t] = e]
    /\ Goto(t, "inner_failed_status")

\* the local variables of _execute_workflow_steps end with the call
LocalsEnd(t) ==
    /\ task_status' = [task_status EXCEPT ![t] = NoReply]
    /\ has_replacement' = [has_replacement EXCEPT ![t] = FALSE]
    /\ processed_dir' = [processed_dir EXCEPT ![t] = {}]
    /\ result_frame_paths' = [result_frame_paths EXCEPT ![t] = <<>>]

\* start_workflow is called: lines 94-97, the input check
StartWorkflow(t, input, cfg) ==
    /\ pc[t] = "idle"
    /\ calls < MaxStarts
    /\ calls' = calls + 1
    /\ arg_input' = [arg_input EXCEPT ![t] = input]
    /\ arg_config' = [arg_config EXCEPT ![t] = cfg]
    /\ outcome' = [outcome EXCEPT ![t] = "running"]
    /\ ret' = [ret EXCEPT ![t] = NoResult]
    /\ visited' = [visited EXCEPT ![t] = <<>>]
    /\ logged' = [logged EXCEPT ![t] = {}]
    /\ requests' = [requests EXCEPT ![t] = {}]
    /\ uploaded' = [uploaded EXCEPT ![t] = NoUpload]
    /\ IF input # MissingVideo
       THEN /\ exc' = [exc EXCEPT ![t] = "none"]
            /\ Goto(t, "reset")
       ELSE /\ exc' = [exc EXCEPT ![t] = "FileNotFoundError"]
            /\ Goto(t, "outer_failed_status")
    /\ UNCHANGED <<self, has_replacement, processed_dir,
                   result_frame_paths, uuid_count, fs_dirs, fs_output,
                   remote_tasks, remote_cancels, cancelVars>>
    /\ UNCHANGED <<task_status, cleanupVars, fnVars, cliVars, readerVars>>

\* line 100: self._reset_state()
ResetState(t) ==
    /\ pc[t] = "reset"
    /\ self' = reset_state(self)
    /\ visited' = [visited EXCEPT ![t] = Append(@, self'.status)]
    /\ Goto(t, "init")
    /\ UNCHANGED <<arg_input, arg_config, has_replacement, processed_dir,
                   result_frame_paths, exc, outcome, ret, logged, envVars,
                   cancelVars>>
    /\ UNCHANGED <<remoteVars, cleanupVars, fnVars, cliVars, readerVars>>

\* lines 103-116: the session's id, input, status, start time, working
\* directory and output path
InitWorkflow(t) ==
    /\ pc[t] = "init"
    /\ uuid_count' = uuid_count + 1
    /\ self' = [self EXCEPT !.workflow_id = uuid_count + 1,
                            !.input_video_path = arg_input[t],
                            !.status = STATUS_PREPARING,
                            !.start_time = Now(self.start_time),
                            !.working_dir = uuid_count + 1,
                            !.output_video_path = OutputPath(arg_input[t])]
    /\ visited' = [visited EXCEPT ![t] = Append(@, STATUS_PREPARING)]
    /\ fs_dirs' = fs_dirs \cup {uuid_count + 1}
    /\ Goto(t, "prepare")
    /\ UNCHANGED <<arg_input, arg_config, has_replacement, processed_dir,
                   result_frame_paths, exc, outcome, ret, calls, fs_output,
                   remote_tasks, remote_cancels, logged, cancelVars>>
    /\ UNCHANGED <<remoteVars, cleanupVars, fnVars, cliVars, readerVars>>
\* the variables a plain step of a starter leaves alone
StepFrame == <<arg_input, arg_config, outcome, ret, calls, uuid_count,
               remote_cancels, logged, cancelVars>>

\* a step that only calls _update_status(st)
StatusStep(t, at, st, next) ==
    /\ pc[t] = at
    /\ WriteStatus(t, st)
    /\ Goto(t, next)
    /\ UNCHANGED <<has_replacement, processed_dir, result_frame_paths, exc,
                   fs_dirs, fs_output, remote_tasks, StepFrame>>
    /\ UNCHANGED <<remoteVars, cleanupVars, fnVars, cliVars, readerVars>>

\* a step that only calls _update_progress(p)
ProgressStep(t, at, p, next) ==
    /\ pc[t] = at
    /\ self' = update_progress(self, p)
    /\ Goto(t, next)
    /\ UNCHANGED <<has_replacement, processed_dir, result_frame_paths, exc,
                   visited, fs_dirs, fs_output, remote_tasks, StepFrame>>
    /\ UNCHANGED <<remoteVars, cleanupVars, fnVars, cliVars, readerVars>>

\* lines 144-154: status preparing, get_video_info, has_replacement
Prepare(t) ==
    /\ pc[t] = "prepare"
    /\ WriteStatus(t, STATUS_PREPARING)
    /\ \/ /\ has_replacement' =
                [has_replacement EXCEPT ![t] = HasReplacement(arg_config[t])]
          /\ Goto(t, "extract_status")
          /\ UNCHANGED exc
       \/ /\ RaiseInner(t, "cannot open video")
          /\ UNCHANGED has_replacement
    /\ UNCHANGED <<processed_dir, result_frame_paths, fs_dirs, fs_output,
                   remote_tasks, StepFrame>>
    /\ UNCHANGED <<remoteVars, cleanupVars, fnVars, cliVars, readerVars>>

\* line 157
ExtractStatus(t) ==
    StatusStep(t, "extract_status", STATUS_EXTRACTING_FRAMES, "extract")

\* the most frames extract_frames can return for a video
VideoFrames(input) ==
    IF input = LongVideo THEN MaxFrames + 1 ELSE MaxFrames

\* lines 158-167: self.frame_paths = extract_frames(...)
ExtractFrames(t) ==
    /\ pc[t] = "extract"
    /\ \/ \E n \in 0..VideoFrames(self.input_video_path) :
            /\ self' = [self EXCEPT !.frame_paths =
                          [i \in 1..n |-> Frame(i, "frames")]]
            /\ fs_dirs' = EnsureWorkingDir(self, fs_dirs)
            /\ Goto(t, "progress20")
            /\ UNCHANGED exc
       \/ /\ RaiseInner(t, "extract_frames failed")
          /\ fs_dirs' \in {fs_dirs, EnsureWorkingDir(self, fs_dirs)}
          /\ UNCHANGED self
    /\ UNCHANGED <<has_replacement, processed_dir, result_frame_paths,
                   visited, fs_output, remote_tasks, StepFrame>>
    /\ UNCHANGED <<remoteVars, cleanupVars, fnVars, cliVars, readerVars>>

\* line 168
Progress20(t) == ProgressStep(t, "progress20", 20, "preprocess_status")

\* line 171
PreprocessStatus(t) ==
    StatusStep(t, "preprocess_status", STATUS_PREPROCESSING_FRAMES,
               "preprocess")

\* a faulty variant that returns the path of the unprocessed frame for a
\* frame whose transform failed
PreprocessResults_keeps_failed(fs) ==
    { [i \in DOMAIN o |-> Frame(o[i].idx, d[i])] :
        o \in Orderings(Range(fs)),
        d \in [1..Len(fs) -> {"frames", "processed_frames"}] }

\* what preprocess_frames returns for the frames fs: the frames whose
\* transform succeeded, in the order in which the workers completed
PreprocessResults(fs) ==
    { [i \in DOMAIN o |-> Frame(o[i].idx, "processed_frames")] :
        o \in Orderings(Range(fs)) }

\* lines 173-180: preprocess_config is the caller's 'preprocess' group
\* itself when the key is there (a new dictionary otherwise), and with an
\* enabled category the two entries are assigned in it
optimised(cfg, replacement) ==
    IF replacement /\ cfg.preprocess.present
    THEN [cfg EXCEPT !.preprocess.enhance_features = "True",
                     !.preprocess.preserve_details = "True"]
    ELSE cfg

\* lines 172-187: self.processed_frame_paths = preprocess_frames(...)
PreprocessFrames(t) ==
    /\ pc[t] = "preprocess"
    /\ arg_config' = [arg_config EXCEPT ![t] = optimised(@, has_replacement[t])]
    /\ \/ \E r \in PreprocessResults(self.frame_paths) :
            /\ self' = [self EXCEPT !.processed_frame_paths = r]
            /\ processed_dir' =
                 [processed_dir EXCEPT ![t] = {f.idx : f \in Range(r)}]
            /\ fs_dirs' = EnsureWorkingDir(self, fs_dirs)
            /\ Goto(t, "progress40")
            /\ UNCHANGED exc
       \/ /\ RaiseInner(t, "preprocess_frames failed")
          /\ UNCHANGED <<self, processed_dir, fs_dirs>>
    /\ UNCHANGED <<has_replacement, result_frame_paths, visited,
                   fs_output, remote_tasks, arg_input, outcome,
                   ret, calls, uuid_count, remote_cancels, logged,
                   cancelVars>>
    /\ UNCHANGED <<remoteVars, cleanupVars, fnVars, cliVars, readerVars>>

\* lines 188-191: progress 40, then the branch on has_replacement
Progress40(t) ==
    ProgressStep(t, "progress40", 40,
                 IF has_replacement[t] THEN "replace_status" ELSE "connect")

\* line 192
ReplaceStatus(t) ==
    StatusStep(t, "replace_status", STATUS_LOCAL_REPLACEMENT, "replace")

\* process_frames_batch: one output per input frame, in input order, in
\* the replaced_frames directory
process_frames_batch(fs) ==
    [i \in DOMAIN fs |-> Frame(fs[i].idx, "replaced_frames")]

\* lines 196-206: self.processed_frame_paths = process_frames_batch(...)
ReplaceFrames(t) ==
    /\ pc[t] = "replace"
    /\ \/ /\ self' = [self EXCEPT !.processed_frame_paths =
                        process_frames_batch(self.processed_frame_paths)]
          /\ fs_dirs' = IF self.processed_frame_paths = <<>> THEN fs_dirs
                        ELSE EnsureWorkingDir(self, fs_dirs)
          /\ Goto(t, "connect")
          /\ UNCHANGED exc
       \/ /\ RaiseInner(t, "process_frames_batch failed")
          /\ UNCHANGED <<self, fs_dirs>>
    /\ UNCHANGED <<has_replacement, processed_dir, result_frame_paths,
                   visited, fs_output, remote_tasks, StepFrame>>
    /\ UNCHANGED <<remoteVars, cleanupVars, fnVars, cliVars, readerVars>>

\* a faulty variant that goes on whatever test_connection returned
AfterConnect_unchecked(is_connected) == "upload_status"

\* lines 212-213: if not test_connection(): raise RuntimeError
AfterConnect(is_connected) ==
    IF is_connected THEN "upload_status" ELSE "inner_failed_status"

\* lines 212-213: test_connection returns True, or False (also when the
\* request raised, client.py lines 429-431)
TestConnection(t) ==
    /\ pc[t] = "connect"
    /\ requests' = [requests EXCEPT ![t] = @ \cup {"test_connection"}]
    /\ \E is_connected \in BOOLEAN :
         /\ Goto(t, AfterConnect(is_connected))
         /\ exc' = [exc EXCEPT ![t] = IF is_connected THEN "none"
                                      ELSE "cannot connect to ComfyUI"]
    /\ UNCHANGED <<self, has_replacement, processed_dir, result_frame_paths,
                   visited, fs_dirs, fs_output, remote_tasks, StepFrame>>
    /\ UNCHANGED <<task_status, uploaded, cleanupVars, fnVars, cliVars, readerVars>>

\* line 216
UploadStatus(t) ==
    StatusStep(t, "upload_status", STATUS_UPLOADING_FRAMES, "submit")
\* a faulty variant that goes on to the upload without a task id
AfterSubmit_unchecked(task_id) == "upload"

\* lines 234-235: if not self.task_id: raise ValueError
AfterSubmit(task_id) ==
    IF task_id = None THEN "inner_failed_status" ELSE "upload"

\* lines 219-235: the task is created and self.task_id assigned.  The
\* remote service answers with a fresh task id, answers without one, or
\* the request raises.  execute_workflow raises itself when the answer
\* holds no task id; execute_replacement_task returns the answer as it is
\* and line 233 stores its (absent) task id before line 235 raises.
SubmitTask(t) ==
    /\ pc[t] = "submit"
    /\ requests' = [requests EXCEPT ![t] = @ \cup {"submit"}]
    /\ \/ \E task_id \in {remote_tasks + 1, None} :
            /\ remote_tasks' =
                 IF task_id = None THEN remote_tasks ELSE remote_tasks + 1
            /\ IF ~has_replacement[t] /\ task_id = None
               THEN /\ RaiseInner(t, "no task id")
                    /\ UNCHANGED self
               ELSE /\ self' = [self EXCEPT !.task_id = task_id]
                    /\ Goto(t, AfterSubmit(task_id))
                    /\ exc' = [exc EXCEPT ![t] =
                                 IF task_id = None THEN "no task id"
                                 ELSE "none"]
       \/ /\ RaiseInner(t, "submit request failed")
          /\ UNCHANGED <<self, remote_tasks>>
    /\ UNCHANGED <<has_replacement, processed_dir, result_frame_paths,
                   visited, fs_dirs, fs_output, StepFrame>>
    /\ UNCHANGED <<task_status, uploaded, cleanupVars, fnVars, cliVars, readerVars>>

\* client.py line 445: the files of the processed_frames directory,
\* sorted by name
DirectoryFrames(dir) ==
    LET order == Sorted(dir)
    IN  [i \in DOMAIN order |-> Frame(order[i], "processed_frames")]

\* lines 238-241: upload_video_frames(processed_dir, self.task_id) raises
\* when the directory holds no file or when a frame upload fails
UploadFrames(t) ==
    /\ pc[t] = "upload"
    /\ \/ /\ processed_dir[t] # {}
          /\ requests' = [requests EXCEPT ![t] = @ \cup {"upload"}]
          /\ uploaded' = [uploaded EXCEPT ![t] =
                            [task_id |-> self.task_id,
                             frames |-> DirectoryFrames(processed_dir[t])]]
          /\ Goto(t, "progress60")
          /\ UNCHANGED exc
       \/ /\ processed_dir[t] = {}
          /\ RaiseInner(t, "no frames in directory")
          /\ UNCHANGED <<requests, uploaded>>
       \/ /\ processed_dir[t] # {}
          /\ requests' = [requests EXCEPT ![t] = @ \cup {"upload"}]
          /\ \E k \in 0..(Cardinality(processed_dir[t]) - 1) :
               uploaded' = [uploaded EXCEPT ![t] =
                 [task_id |-> self.task_id,
                  frames |-> SubSeq(DirectoryFrames(processed_dir[t]), 1, k)]]
          /\ RaiseInner(t, "upload failed")
    /\ UNCHANGED <<self, has_replacement, processed_dir, result_frame_paths,
                   visited, fs_dirs, fs_output, remote_tasks, StepFrame>>
    /\ UNCHANGED <<task_status, cleanupVars, fnVars, cliVars, readerVars>>

\* line 242
Progress60(t) == ProgressStep(t, "progress60", 60, "execute_status")

\* line 245
ExecuteStatus(t) ==
    StatusStep(t, "execute_status", STATUS_EXECUTING_WORKFLOW, "poll")

\* a faulty variant of the loop that keeps polling a canceled task
AfterPoll_ignores_canceled(st) ==
    IF st = "completed" THEN "progress80"
    ELSE IF st = "failed" THEN "inner_failed_status"
    ELSE "poll_sleep"

\* a faulty variant that goes on to the download when the remote task
\* failed
AfterPoll_failed_goes_on(st) ==
    IF st \in {"completed", "failed"} THEN "progress80"
    ELSE IF st = "canceled" THEN "inner_failed_status"
    ELSE "poll_sleep"

\* a faulty variant that gives up on a status it does not know
AfterPoll_gives_up(st) ==
    IF st = "completed" THEN "progress80"
    ELSE IF st \in {"failed", "canceled", "unknown"} THEN "inner_failed_status"
    ELSE "poll_sleep"

\* where one iteration of wait_for_task_completion goes on the remote
\* status st
AfterPoll(st) ==
    IF st = "completed" THEN "progress80"
    ELSE IF st \in {"failed", "canceled"} THEN "inner_failed_status"
    ELSE "poll_sleep"

\* client.py line 103: task_status.get('error', <unknown error>)
ErrorMessage(reply) ==
    IF reply.error = "none" THEN "unknown error" ELSE reply.error

\* the RuntimeError wait_for_task_completion raises on the answer reply:
\* lines 104-105 for failed, lines 107-108 for canceled
PollError(reply) ==
    IF reply.status = "failed"
    THEN "workflow failed: " \o ErrorMessage(reply)
    ELSE IF reply.status = "canceled" THEN "workflow canceled"
    ELSE "none"

\* client.py lines 94-111: one get_task_status and the branch on it
PollTask(t) ==
    /\ pc[t] = "poll"
    /\ requests' = [requests EXCEPT ![t] = @ \cup {"get_task_status"}]
    /\ \/ \E reply \in RemoteReplies :
            /\ task_status' = [task_status EXCEPT ![t] = reply]
            /\ Goto(t, AfterPoll(reply.status))
            /\ exc' = [exc EXCEPT ![t] = PollError(reply)]
       \/ /\ RaiseInner(t, "status request failed")
          /\ UNCHANGED task_status
    /\ UNCHANGED <<self, has_replacement, processed_dir, result_frame_paths,
                   visited, fs_dirs, fs_output, remote_tasks, StepFrame>>
    /\ UNCHANGED <<uploaded, cleanupVars, fnVars, cliVars, readerVars>>

\* client.py line 114: time.sleep(poll_interval), then the next iteration
PollSleep(t) ==
    /\ pc[t] = "poll_sleep"
    /\ Goto(t, "poll")
    /\ UNCHANGED <<self, has_replacement, processed_dir, result_frame_paths,
                   exc, visited, fs_dirs, fs_output, remote_tasks, StepFrame>>
    /\ UNCHANGED <<remoteVars, cleanupVars, fnVars, cliVars, readerVars>>

\* line 252
Progress80(t) == ProgressStep(t, "progress80", 80, "download")

\* a faulty variant that composes what the remote answer supplied, which
\* lacks the first local frame
ResultFrames_from_payload(replacement, reply, local) ==
    IF replacement /\ reply.replaced_frames = "frames" /\ local # <<>>
    THEN Tail(local)
    ELSE local

\* lines 262-272: result_frame_paths is self.processed_frame_paths on
\* both branches
ResultFrames(replacement, reply, local) ==
    IF replacement /\ reply.replaced_frames # "absent"
    THEN local
    ELSE local

\* lines 255-272: status downloading_results, the results directory, and
\* result_frame_paths; len() of a replaced_frames entry that has no
\* length raises TypeError
DownloadResults(t) ==
    /\ pc[t] = "download"
    /\ WriteStatus(t, STATUS_DOWNLOADING_RESULTS)
    /\ \/ /\ ~(has_replacement[t] /\ task_status[t].replaced_frames = "null")
          /\ result_frame_paths' =
                [result_frame_paths EXCEPT ![t] =
                   ResultFrames(has_replacement[t], task_status[t],
                                self.processed_frame_paths)]
          /\ fs_dirs' = EnsureWorkingDir(self, fs_dirs)
          /\ Goto(t, "progress90")
          /\ UNCHANGED exc
       \/ /\ has_replacement[t] /\ task_status[t].replaced_frames = "null"
          /\ fs_dirs' = EnsureWorkingDir(self, fs_dirs)
          /\ RaiseInner(t, "TypeError")
          /\ UNCHANGED result_frame_paths
       \/ /\ RaiseInner(t, "cannot create results directory")
          /\ UNCHANGED <<result_frame_paths, fs_dirs>>
    /\ UNCHANGED <<has_replacement, processed_dir, fs_output,
                   remote_tasks, StepFrame>>
    /\ UNCHANGED <<remoteVars, cleanupVars, fnVars, cliVars, readerVars>>

\* line 274
Progress90(t) == ProgressStep(t, "progress90", 90, "compose_status")

\* line 277
ComposeStatus(t) ==
    StatusStep(t, "compose_status", STATUS_COMPOSING_VIDEO, "compose")

\* lines 280-287: frames_to_video raises on an empty frame list and on an
\* unreadable first frame, and writes the output video otherwise
ComposeVideo(t) ==
    /\ pc[t] = "compose"
    /\ \/ /\ result_frame_paths[t] # <<>>
          /\ fs_output' =
               {f \in fs_output : f.path # self.output_video_path}
               \cup {[path |-> self.output_video_path,
                      session |-> self.workflow_id]}
          /\ Goto(t, "progress100")
          /\ UNCHANGED exc
       \/ /\ result_frame_paths[t] = <<>>
          /\ RaiseInner(t, "empty frame list")
          /\ UNCHANGED fs_output
       \/ /\ result_frame_paths[t] # <<>>
          /\ RaiseInner(t, "cannot read first frame")
          /\ UNCHANGED fs_output
    /\ UNCHANGED <<self, has_replacement, processed_dir, result_frame_paths,
                   visited, fs_dirs, remote_tasks, StepFrame>>
    /\ UNCHANGED <<remoteVars, cleanupVars, fnVars, cliVars, readerVars>>

\* line 288
Progress100(t) == ProgressStep(t, "progress100", 100, "completed_status")

\* line 291
CompletedStatus(t) ==
    StatusStep(t, "completed_status", STATUS_COMPLETED, "completed_end_time")

\* line 292: self.end_time = time.time()
CompletedEndTime(t) ==
    /\ pc[t] = "completed_end_time"
    /\ self' = [self EXCEPT !.end_time = Now(self.end_time)]
    /\ Goto(t, "return")
    /\ UNCHANGED <<has_replacement, processed_dir, result_frame_paths, exc,
                   visited, fs_dirs, fs_output, remote_tasks, StepFrame>>
    /\ UNCHANGED <<remoteVars, cleanupVars, fnVars, cliVars, readerVars>>

\* lines 124-130: start_workflow returns the session summary
ReturnResult(t) ==
    /\ pc[t] = "return"
    /\ ret' = [ret EXCEPT ![t] = StartResult(self)]
    /\ outcome' = [outcome EXCEPT ![t] = "returned"]
    /\ Goto(t, "idle")
    /\ LocalsEnd(t)
    /\ UNCHANGED <<self, arg_input, arg_config, exc, visited, logged,
                   envVars, cancelVars>>
    /\ UNCHANGED <<requests, uploaded, cleanupVars, fnVars, cliVars, readerVars>>

\* a faulty variant of the handler that cancels the remote task of the
\* session that failed
SetFailedStatus_cancels_task(t, at, next) ==
    /\ pc[t] = at
    /\ self' = set_failed_status(self)
    /\ visited' = [visited EXCEPT ![t] = Append(@, self'.status)]
    /\ Goto(t, next)
    /\ remote_cancels' = IF self.task_id # None
                         THEN remote_cancels \cup {self.task_id}
                         ELSE remote_cancels
    /\ UNCHANGED <<has_replacement, processed_dir, result_frame_paths, exc,
                   fs_dirs, fs_output, remote_tasks, arg_input, arg_config,
                   outcome, ret, calls, uuid_count, logged, cancelVars>>
    /\ UNCHANGED <<remoteVars, cleanupVars, fnVars, cliVars, readerVars>>

\* _set_failed_state line 399, called from the handler at line 297
\* (inner) or from the handler at line 133 (outer)
SetFailedStatus(t, at, next) ==
    /\ pc[t] = at
    /\ self' = set_failed_status(self)
    /\ visited' = [visited EXCEPT ![t] = Append(@, self'.status)]
    /\ Goto(t, next)
    /\ UNCHANGED <<has_replacement, processed_dir, result_frame_paths, exc,
                   fs_dirs, fs_output, remote_tasks, StepFrame>>
    /\ UNCHANGED <<remoteVars, cleanupVars, fnVars, cliVars, readerVars>>

\* _set_failed_state lines 400-401: end_time and the logged message
SetFailedEndTime(t, at, next) ==
    /\ pc[t] = at
    /\ self' = set_failed_end_time(self)
    /\ logged' = [logged EXCEPT ![t] = @ \cup
                    {[workflow_id |-> self.workflow_id, message |-> exc[t]]}]
    /\ Goto(t, next)
    /\ UNCHANGED <<arg_input, arg_config, has_replacement, processed_dir,
                   result_frame_paths, exc, outcome, ret, visited, calls,
                   uuid_count, fs_dirs, fs_output, remote_tasks,
                   remote_cancels, cancelVars>>
    /\ UNCHANGED <<remoteVars, cleanupVars, fnVars, cliVars, readerVars>>

InnerFailedStatus(t) ==
    SetFailedStatus(t, "inner_failed_status", "inner_failed_end_time")

InnerFailedEndTime(t) ==
    SetFailedEndTime(t, "inner_failed_end_time", "outer_failed_status")

OuterFailedStatus(t) ==
    SetFailedStatus(t, "outer_failed_status", "outer_failed_end_time")

OuterFailedEndTime(t) ==
    SetFailedEndTime(t, "outer_failed_end_time", "raise")

\* line 134: the exception leaves start_workflow
RaiseToCaller(t) ==
    /\ pc[t] = "raise"
    /\ outcome' = [outcome EXCEPT ![t] = "raised"]
    /\ Goto(t, "idle")
    /\ LocalsEnd(t)
    /\ UNCHANGED <<self, arg_input, arg_config, exc, ret, visited, logged,
                   envVars, cancelVars>>
    /\ UNCHANGED <<requests, uploaded, cleanupVars, fnVars, cliVars, readerVars>>

\* ------------------------------------------------------ cancel_workflow
\* cancel_workflow is called
CancelCall ==
    /\ cpc = "idle"
    /\ cpc' = "guard"
    /\ cancel_result' = "pending"
    /\ cancel_sent' = FALSE
    /\ cancel_raised' = FALSE
    /\ cancel_workflow_id' = None
    /\ UNCHANGED <<self, starterVars, envVars>>
    /\ UNCHANGED <<remoteVars, cleanupVars, fnVars, cliVars, readerVars>>

\* a faulty variant of the guard that lets a canceled session through
CancelRefused_not_canceled(m) ==
    m.status \in {STATUS_COMPLETED, STATUS_FAILED}

\* lines 450-451: the guard on the status
CancelRefused(m) == m.status \in TerminalStatuses

CancelGuard ==
    /\ cpc = "guard"
    /\ IF CancelRefused(self)
       THEN /\ cpc' = "idle"
            /\ cancel_result' = "failure"
       ELSE /\ cpc' = "set_status"
            /\ UNCHANGED cancel_result
    /\ UNCHANGED <<self, cancel_sent, cancel_raised, cancel_workflow_id,
                   starterVars, envVars>>
    /\ UNCHANGED <<remoteVars, cleanupVars, fnVars, cliVars, readerVars>>

\* line 455: self.status = self.STATUS_CANCELED
CancelSetStatus ==
    /\ cpc = "set_status"
    /\ self' = [self EXCEPT !.status = STATUS_CANCELED]
    /\ cpc' = "set_end_time"
    /\ UNCHANGED <<cancel_result, cancel_sent, cancel_raised,
                   cancel_workflow_id, starterVars, envVars>>
    /\ UNCHANGED <<remoteVars, cleanupVars, fnVars, cliVars, readerVars>>

\* line 456: self.end_time = time.time()
CancelSetEndTime ==
    /\ cpc = "set_end_time"
    /\ self' = [self EXCEPT !.end_time = Now(self.end_time)]
    /\ cpc' = "remote"
    /\ UNCHANGED <<cancel_result, cancel_sent, cancel_raised,
                   cancel_workflow_id, starterVars, envVars>>
    /\ UNCHANGED <<remoteVars, cleanupVars, fnVars, cliVars, readerVars>>

\* line 459: if self.task_id
HasRemoteTask(m) == m.task_id # None

\* a faulty variant of the result that reports a raised remote cancel
CancelOutcome_escalating(raised) == IF raised THEN "failure" ELSE "success"

\* lines 460-472: 'success' of the result when the remote cancel raised
\* (the exception is caught and logged as a warning) or did not
CancelOutcome(raised) == "success"

\* lines 459-472: the remote cancel and the result, which carries
\* self.workflow_id as read at line 471
CancelRemote ==
    /\ cpc = "remote"
    /\ IF HasRemoteTask(self)
       THEN /\ remote_cancels' = remote_cancels \cup {self.task_id}
            /\ cancel_sent' = TRUE
            /\ cancel_raised' \in BOOLEAN
       ELSE /\ UNCHANGED <<remote_cancels, cancel_sent, cancel_raised>>
    /\ cancel_result' = CancelOutcome(cancel_raised')
    /\ cancel_workflow_id' = self.workflow_id
    /\ cpc' = "idle"
    /\ UNCHANGED <<self, starterVars, calls, uuid_count, fs_dirs, fs_output,
                   remote_tasks>>
    /\ UNCHANGED <<remoteVars, cleanupVars, fnVars, cliVars, readerVars>>

\* -------------------------------------------------------- specification
\* the steps of starter t, whose callers pass the configurations cfgs
StarterSteps(t, inputs, cfgs) ==
    \/ \E input \in inputs, cfg \in cfgs : StartWorkflow(t, input, cfg)
    \/ ResetState(t)
    \/ InitWorkflow(t)
    \/ Prepare(t)
    \/ ExtractStatus(t)
    \/ ExtractFrames(t)
    \/ Progress20(t)
    \/ PreprocessStatus(t)
    \/ PreprocessFrames(t)
    \/ Progress40(t)
    \/ ReplaceStatus(t)
    \/ ReplaceFrames(t)
    \/ TestConnection(t)
    \/ UploadStatus(t)
    \/ SubmitTask(t)
    \/ UploadFrames(t)
    \/ Progress60(t)
    \/ ExecuteStatus(t)
    \/ PollTask(t)
    \/ PollSleep(t)
    \/ Progress80(t)
    \/ DownloadResults(t)
    \/ Progress90(t)
    \/ ComposeStatus(t)
    \/ ComposeVideo(t)
    \/ Progress100(t)
    \/ CompletedStatus(t)
    \/ CompletedEndTime(t)
    \/ ReturnResult(t)
    \/ InnerFailedStatus(t)
    \/ InnerFailedEndTime(t)
    \/ OuterFailedStatus(t)
    \/ OuterFailedEndTime(t)
    \/ RaiseToCaller(t)

\* the steps of starter t when its callers pass the videos of Inputs
StarterStep(t, cfgs) == StarterSteps(t, Inputs, cfgs)

CancelStep ==
    \/ CancelCall
    \/ CancelGuard
    \/ CancelSetStatus
    \/ CancelSetEndTime
    \/ CancelRemote

\* one thread calls start_workflow and a second one cancel_workflow
Next ==
    \/ StarterStep(MainStarter, Configs)
    \/ CancelStep

Spec == Init /\ [][Next]_vars

\* one thread calls start_workflow and no other thread touches the instance
NextAlone == StarterStep(MainStarter, Configs)

SpecAlone == Init /\ [][NextAlone]_vars

\* start_workflow called, one call after another, with configurations that
\* carry a 'preprocess' group
NextGroup == StarterSteps(MainStarter, Inputs, GroupConfigs)

SpecGroup == Init /\ [][NextGroup]_vars

\* one thread calls start_workflow on the longer video
NextLong == StarterSteps(MainStarter, {LongVideo}, Configs)

SpecLong == Init /\ [][NextLong]_vars

\* the thread that called start_workflow is running
Running(t) ==
    /\ pc[t] # "idle"
    /\ StarterStep(t, Configs)

\* ... and is scheduled again and again until the call ends
SpecAloneFair == SpecAlone /\ WF_vars(Running(MainStarter))

\* two threads call start_workflow on the same instance, one without and
\* one with a replacement category
NextTwoStarters ==
    \/ StarterStep(MainStarter, {Config(FALSE, FALSE, FALSE, FALSE)})
    \/ StarterStep(SecondStarter, {Config(TRUE, TRUE, FALSE, FALSE)})

SpecTwoStarters == Init /\ [][NextTwoStarters]_vars

\* ----------------------------------------------------------- cleanup
\* os.path.exists(self.output_video_path)
OutputExists(m, outs) == \E f \in outs : f.path = m.output_video_path

\* a faulty variant that removes the output video without looking whether
\* it exists
cleanup_unchecked(m, dirs, outs, keep_results) ==
    [client_closed |-> TRUE,
     fs_dirs   |-> dirs \ {m.working_dir},
     fs_output |-> IF keep_results THEN outs
                   ELSE {f \in outs : f.path # m.output_video_path},
     raised    |-> IF ~keep_results /\ ~OutputExists(m, outs)
                   THEN "FileNotFoundError" ELSE "none"]

\* a faulty variant that removes the output video whatever keep_results is
cleanup_keeps_nothing(m, dirs, outs, keep_results) ==
    [client_closed |-> TRUE,
     fs_dirs   |-> IF m.working_dir # None /\ m.working_dir \in dirs
                   THEN dirs \ {m.working_dir} ELSE dirs,
     fs_output |-> {f \in outs : f.path # m.output_video_path},
     raised    |-> "none"]

\* manager.py lines 481-499, cleanup(keep_results): closes the client,
\* removes the working directory when it is set and present
\* (remove_directory ignores errors), and with keep_results False removes
\* the output video when it is set and present; what the files and the
\* client are afterwards, and the exception that left the call
cleanup(m, dirs, outs, keep_results) ==
    [client_closed |-> TRUE,
     fs_dirs   |-> IF m.working_dir # None /\ m.working_dir \in dirs
                   THEN dirs \ {m.working_dir} ELSE dirs,
     fs_output |-> IF ~keep_results /\ m.output_video_path # NoPath
                      /\ OutputExists(m, outs)
                   THEN {f \in outs : f.path # m.output_video_path}
                   ELSE outs,
     raised    |-> "none"]

\* a thread calls cleanup(keep_results) on the instance
Cleanup ==
    /\ cleanups < MaxCleanups
    /\ \E keep_results \in BOOLEAN :
         LET after == cleanup(self, fs_dirs, fs_output, keep_results) IN
         /\ client_closed' = after.client_closed
         /\ fs_dirs' = after.fs_dirs
         /\ fs_output' = after.fs_output
         /\ last_cleanup' = [keep_results |-> keep_results,
                             raised |-> after.raised]
    /\ cleanups' = cleanups + 1
    /\ UNCHANGED <<self, starterVars, calls, uuid_count, remote_tasks,
                   remote_cancels, cancelVars, remoteVars, fnVars, cliVars, readerVars>>

\* one thread calls start_workflow, a second one cancel_workflow and a
\* third one cleanup
NextCleanup ==
    \/ StarterStep(MainStarter, {Config(TRUE, TRUE, FALSE, FALSE)})
    \/ CancelStep
    \/ Cleanup

SpecCleanup == Init /\ [][NextCleanup]_vars

\* ----------------------------------------------------------- get_status
\* what a step of get_status leaves alone
ReaderFrame == <<self, starterVars, envVars, cancelVars, remoteVars,
                 cleanupVars, fnVars, cliVars>>

\* a faulty variant of the call that waits for start_workflow to end
GetStatusCall_waiting ==
    /\ gs.at = "idle"
    /\ \A t \in Starters : pc[t] = "idle"
    /\ gs' = [at |-> "workflow_id", info |-> NoInfo, raised |-> "none"]
    /\ UNCHANGED ReaderFrame

\* line 417: get_status is called; no lock is taken and no step waited for
GetStatusCall ==
    /\ gs.at = "idle"
    /\ gs' = [at |-> "workflow_id", info |-> NoInfo, raised |-> "none"]
    /\ UNCHANGED ReaderFrame

\* lines 423-430: one entry of the dictionary display is evaluated, a read
\* of one field of the instance
ReadField(at, key, value, next) ==
    /\ gs.at = at
    /\ gs' = [gs EXCEPT !.at = next, !.info[key] = value]
    /\ UNCHANGED ReaderFrame

GetStatusWorkflowId ==
    ReadField("workflow_id", "workflow_id", self.workflow_id, "status")
GetStatusStatus ==
    ReadField("status", "status", self.status, "progress")
GetStatusProgress ==
    ReadField("progress", "progress", self.progress, "input_video")
GetStatusInputVideo ==
    ReadField("input_video", "input_video", self.input_video_path,
              "output_video")
GetStatusOutputVideo ==
    ReadField("output_video", "output_video", self.output_video_path,
              "task_id")
GetStatusTaskId ==
    ReadField("task_id", "task_id", self.task_id, "check_start")

\* an exception leaves get_status
GetStatusRaise(e) == gs' = [gs EXCEPT !.at = "idle", !.raised = e]

\* line 433: if self.start_time
GetStatusCheckStart ==
    /\ gs.at = "check_start"
    /\ gs' = [gs EXCEPT !.at = IF self.start_time # None
                               THEN "started_at" ELSE "return"]
    /\ UNCHANGED ReaderFrame

\* line 434: datetime.fromtimestamp(self.start_time), a second read of the
\* field; fromtimestamp(None) raises TypeError
GetStatusStartedAt ==
    /\ gs.at = "started_at"
    /\ IF self.start_time # None
       THEN gs' = [gs EXCEPT !.at = "check_end",
                             !.info.started_at = self.start_time]
       ELSE GetStatusRaise("TypeError")
    /\ UNCHANGED ReaderFrame

\* line 436: if self.end_time
GetStatusCheckEnd ==
    /\ gs.at = "check_end"
    /\ gs' = [gs EXCEPT !.at = IF self.end_time # None
                               THEN "ended_at" ELSE "duration_running"]
    /\ UNCHANGED ReaderFrame

\* line 437: datetime.fromtimestamp(self.end_time), a second read
GetStatusEndedAt ==
    /\ gs.at = "ended_at"
    /\ IF self.end_time # None
       THEN gs' = [gs EXCEPT !.at = "duration_ended",
                             !.info.ended_at = self.end_time]
       ELSE GetStatusRaise("TypeError")
    /\ UNCHANGED ReaderFrame

\* line 438: self.end_time - self.start_time, a third read of each
GetStatusDurationEnded ==
    /\ gs.at = "duration_ended"
    /\ IF self.end_time # None /\ self.start_time # None
       THEN gs' = [gs EXCEPT !.at = "return", !.info.duration = "ended"]
       ELSE GetStatusRaise("TypeError")
    /\ UNCHANGED ReaderFrame

\* line 440: time.time() - self.start_time
GetStatusDurationRunning ==
    /\ gs.at = "duration_running"
    /\ IF self.start_time # None
       THEN gs' = [gs EXCEPT !.at = "return", !.info.duration = "running"]
       ELSE GetStatusRaise("TypeError")
    /\ UNCHANGED ReaderFrame

\* line 442: return status_info
GetStatusReturn ==
    /\ gs.at = "return"
    /\ gs' = [gs EXCEPT !.at = "idle"]
    /\ UNCHANGED ReaderFrame

\* the steps of get_status after the call
GetStatusStep ==
    \/ GetStatusWorkflowId
    \/ GetStatusStatus
    \/ GetStatusProgress
    \/ GetStatusInputVideo
    \/ GetStatusOutputVideo
    \/ GetStatusTaskId
    \/ GetStatusCheckStart
    \/ GetStatusStartedAt
    \/ GetStatusCheckEnd
    \/ GetStatusEndedAt
    \/ GetStatusDurationEnded
    \/ GetStatusDurationRunning
    \/ GetStatusReturn

\* one thread calls start_workflow and a second one get_status
NextStatus ==
    \/ StarterStep(MainStarter, {Config(TRUE, TRUE, FALSE, FALSE)})
    \/ GetStatusCall
    \/ GetStatusStep

SpecStatus == Init /\ [][NextStatus]_vars

\* ------------------------------------------------- ConfigManager
\* the manager, the cancelling thread and the remote service at rest
ManagerAtRest ==
    /\ self = InitialManager
    /\ pc = [t \in Starters |-> "idle"]
    /\ arg_input = [t \in Starters |-> ExistingVideo]
    /\ arg_config = [t \in Starters |-> Config(FALSE, FALSE, FALSE, FALSE)]
    /\ has_replacement = [t \in Starters |-> FALSE]
    /\ processed_dir = [t \in Starters |-> {}]
    /\ result_frame_paths = [t \in Starters |-> <<>>]
    /\ exc = [t \in Starters |-> "none"]
    /\ outcome = [t \in Starters |-> "none"]
    /\ ret = [t \in Starters |-> NoResult]
    /\ visited = [t \in Starters |-> <<>>]
    /\ logged = [t \in Starters |-> {}]
    /\ calls = 0
    /\ uuid_count = 0
    /\ fs_dirs = {}
    /\ fs_output = {}
    /\ remote_tasks = 0
    /\ remote_cancels = {}
    /\ cpc = "idle"
    /\ cancel_result = "none"
    /\ cancel_sent = FALSE
    /\ cancel_raised = FALSE
    /\ cancel_workflow_id = None
    /\ task_status = [t \in Starters |-> NoReply]
    /\ requests = [t \in Starters |-> {}]
    /\ uploaded = [t \in Starters |-> NoUpload]
    /\ client_closed = FALSE
    /\ cleanups = 0
    /\ last_cleanup = NoCleanup
    /\ gs = NoReader

\* a setting a source does not supply, and one it supplies
Absent == [present |-> FALSE]
Supplied(v) == [present |-> TRUE, value |-> v]

\* the settings of the claim: comfyui.api_endpoint, comfyui.timeout and
\* logging.level
Settings == {"api_endpoint", "timeout", "level"}

\* what the environment variables COMFYUI_API_ENDPOINT, COMFYUI_TIMEOUT
\* and LOG_LEVEL may hold: environment values are strings
EnvValues ==
    [api_endpoint : {Absent, Supplied("https://env.example/v1")},
     timeout      : {Absent, Supplied("600"), Supplied("ten")},
     level        : {Absent, Supplied("DEBUG")}]

\* what the YAML file may hold under comfyui.api_endpoint,
\* comfyui.timeout and logging.level
FileValues ==
    [api_endpoint : {Absent, Supplied("https://file.example/v1")},
     timeout      : {Absent, Supplied(120)},
     level        : {Absent, Supplied("WARNING")}]

\* lines 44, 45, 69: the defaults of os.getenv
DefaultEndpoint == "https://api.comfyui-cloud.example/v1"
DefaultTimeout  == "300"
DefaultLevel    == "INFO"

\* os.getenv(name, default)
getenv(setting, default) ==
    IF setting.present THEN setting.value ELSE default

\* the strings int() accepts here
Numerals == {"300", "600"}

\* int(s) for a string of Numerals
int(s) == CASE s = "300" -> 300 [] s = "600" -> 600

\* ConfigManager(config_file) is constructed with the environment env and
\* a configuration file that holds file
ConfigCall(env, file) ==
    [op |-> "ConfigManager", at |-> "defaults", env |-> env, file |-> file,
     config |-> [api_endpoint |-> "", timeout |-> 0, level |-> ""],
     raised |-> "none"]

ConfigCalls == {ConfigCall(e, f) : e \in EnvValues, f \in FileValues}

\* lines 42-72: default_config takes the environment's values, or the
\* literal defaults; int() raises ValueError on a string that is no number
ConfigDefaults ==
    /\ fn.op = "ConfigManager"
    /\ fn.at = "defaults"
    /\ fn' =
         IF getenv(fn.env.timeout, DefaultTimeout) \in Numerals
         THEN [fn EXCEPT !.at = "merge",
                !.config =
                   [api_endpoint |->
                       getenv(fn.env.api_endpoint, DefaultEndpoint),
                    timeout |-> int(getenv(fn.env.timeout, DefaultTimeout)),
                    level |-> getenv(fn.env.level, DefaultLevel)]]
         ELSE [fn EXCEPT !.at = "done", !.raised = "ValueError"]
    /\ UNCHANGED ManagerVars

\* lines 87-98, _merge_config(base, override): every value of the file
\* replaces the value base holds
merge_config(base, override) ==
    [k \in Settings |->
        IF override[k].present THEN override[k].value ELSE base[k]]

\* lines 75-80: the file's values are merged into default_config
ConfigMerge ==
    /\ fn.op = "ConfigManager"
    /\ fn.at = "merge"
    /\ fn' = [fn EXCEPT !.at = "override",
                        !.config = merge_config(fn.config, fn.file)]
    /\ UNCHANGED ManagerVars

\* lines 100-108, _override_from_env(config): the body is pass
override_from_env(config, env) == config

\* line 83: self._override_from_env(default_config)
ConfigOverride ==
    /\ fn.op = "ConfigManager"
    /\ fn.at = "override"
    /\ fn' = [fn EXCEPT !.at = "done",
                        !.config = override_from_env(fn.config, fn.env)]
    /\ UNCHANGED ManagerVars

\* lines 140-158, get(key) for a key of Settings
get(config, key) == config[key]

\* the state in which a ConfigManager is constructed
InitConfig ==
    /\ ManagerAtRest
    /\ fn \in ConfigCalls
    /\ cli = NoCommand

NextConfig ==
    \/ ConfigDefaults
    \/ ConfigMerge
    \/ ConfigOverride

SpecConfig == InitConfig /\ [][NextConfig]_vars

\* ------------------------------------------ ConfigManager.update
\* the values a configuration holds: integers, strings and nested
\* mappings; NoneValue is the default of get
IntValue(n) == [type |-> "int",  n |-> n, s |-> ""]
StrValue(s) == [type |-> "str",  n |-> 0, s |-> s]
DictValue   == [type |-> "dict", n |-> 0, s |-> ""]
NoneValue   == [type |-> "None", n |-> 0, s |-> ""]

\* line 46: the default of comfyui.retry_count
DefaultRetryCount == 5

\* self.config is a mapping of mappings: the model holds it as a function
\* from the paths of its entries to their values, a nested mapping being
\* an entry of type dict. key.split('.') is the path itself.
\* lines 42-72 with an empty environment: the part of default_config
\* that _validate_config and the claim's keys read
DefaultTree ==
    (<<"comfyui">> :> DictValue)
    @@ (<<"comfyui", "api_endpoint">> :> StrValue(DefaultEndpoint))
    @@ (<<"comfyui", "timeout">> :> IntValue(int(DefaultTimeout)))
    @@ (<<"comfyui", "retry_count">> :> IntValue(DefaultRetryCount))
    @@ (<<"logging">> :> DictValue)
    @@ (<<"logging", "level">> :> StrValue(DefaultLevel))

\* the configurations update is called on: the defaults, and the defaults
\* under a file that supplies comfyui.timeout
Trees ==
    {DefaultTree,
     [DefaultTree EXCEPT ![<<"comfyui", "timeout">>] = IntValue(120)]}

\* the dotted keys of the calls: the three validated settings, a setting
\* that is not validated, a key of a group that does not exist yet, and a
\* key that leads through a setting that is no mapping
Keys ==
    {<<"comfyui", "api_endpoint">>, <<"comfyui", "timeout">>,
     <<"comfyui", "retry_count">>, <<"logging", "level">>,
     <<"extra", "flag">>, <<"comfyui", "timeout", "unit">>}

\* the values of the calls
Values ==
    {StrValue(""), StrValue("https://new.example/v1"), IntValue(0), IntValue(-1), IntValue(60)}

\* keys[:i]
Prefix(keys, i) == SubSeq(keys, 1, i)

\* path is keys or lies under keys
Under(keys, path) ==
    Len(path) >= Len(keys) /\ Prefix(path, Len(keys)) = keys

\* lines 166-175: the walk reaches an entry that is no mapping, and
\* `k not in config` or the item assignment raises TypeError
Blocked(config, keys) ==
    \E i \in 1..(Len(keys) - 1) :
        /\ Prefix(keys, i) \in DOMAIN config
        /\ config[Prefix(keys, i)].type # "dict"

\* lines 166-175 when nothing raises: missing groups are created as empty
\* mappings and config[keys[-1]] = value replaces what the key held
update(config, keys, value) ==
    LET kept == {p \in DOMAIN config : ~Under(keys, p)}
        made == {Prefix(keys, i) : i \in 1..(Len(keys) - 1)} \ DOMAIN config
    IN  [p \in kept \cup made \cup {keys} |->
            IF p = keys THEN value
            ELSE IF p \in made THEN DictValue
            ELSE config[p]]

\* lines 140-158, get(key, default) for a dotted key: KeyError and
\* TypeError of the walk give the default
get_dotted(config, keys, default) ==
    IF keys \in DOMAIN config THEN config[keys] ELSE default

\* Python's truth value of a configuration value
Truthy(config, path) ==
    /\ path \in DOMAIN config
    /\ CASE config[path].type = "int"  -> config[path].n # 0
         [] config[path].type = "str"  -> config[path].s # ""
         [] config[path].type = "dict" ->
               \E p \in DOMAIN config : p # path /\ Under(path, p)
         [] OTHER -> FALSE

\* lines 110-138, _validate_config: the exception it raises, or none.
\* .get on a comfyui entry that is no mapping raises AttributeError; the
\* directories of lines 133-138 are left out
validate_config(config) ==
    LET comfyui == <<"comfyui">>
        timeout ==
            get_dotted(config, <<"comfyui", "timeout">>,
                       IntValue(int(DefaultTimeout)))
        retry_count ==
            get_dotted(config, <<"comfyui", "retry_count">>,
                       IntValue(DefaultRetryCount))
    IN  IF comfyui \in DOMAIN config /\ config[comfyui].type # "dict"
        THEN "AttributeError"
        ELSE IF ~Truthy(config, <<"comfyui", "api_endpoint">>)
        THEN "ValueError"
        ELSE IF timeout.type # "int" \/ timeout.n <= 0
        THEN "ValueError"
        ELSE IF retry_count.type # "int" \/ retry_count.n < 0
        THEN "ValueError"
        ELSE "none"

\* update(key, value) is called on a manager whose configuration is
\* config; before is the configuration at the call, got what the get(key)
\* after the call returns
UpdateCall(config, keys, value) ==
    [op |-> "update", at |-> "assign", key |-> keys, value |-> value,
     before |-> config, config |-> config, raised |-> "none",
     got |-> NoneValue]

UpdateCalls ==
    {UpdateCall(c, k, v) : c \in Trees, k \in Keys, v \in Values}

\* lines 166-175: the walk and the assignment, made in self.config itself
UpdateAssign ==
    /\ fn.op = "update"
    /\ fn.at = "assign"
    /\ fn' =
         IF Blocked(fn.config, fn.key)
         THEN [fn EXCEPT !.at = "done", !.raised = "TypeError"]
         ELSE [fn EXCEPT !.at = "validate",
                         !.config = update(fn.config, fn.key, fn.value)]
    /\ UNCHANGED ManagerVars

\* line 176: self._validate_config(); its exception leaves update, and
\* no handler restores self.config
UpdateValidate ==
    /\ fn.op = "update"
    /\ fn.at = "validate"
    /\ fn' = [fn EXCEPT !.at = "done",
                        !.raised = validate_config(fn.config)]
    /\ UNCHANGED ManagerVars

\* the caller's get(key) after update has returned or raised
UpdateGet ==
    /\ fn.op = "update"
    /\ fn.at = "done"
    /\ fn' = [fn EXCEPT !.at = "got",
                        !.got = get_dotted(fn.config, fn.key, NoneValue)]
    /\ UNCHANGED ManagerVars

\* a constructed ConfigManager and one call of update
InitUpdate ==
    /\ ManagerAtRest
    /\ fn \in UpdateCalls
    /\ cli = NoCommand

NextUpdate ==
    \/ UpdateAssign
    \/ UpdateValidate
    \/ UpdateGet

SpecUpdate == InitUpdate /\ [][NextUpdate]_vars

\* ------------------------------------------ the replicate command
\* the path given with --output
RequestedOutput == "requested.mp4"

\* main.py cmd_replicate is entered with the input path args.input and
\* with or without --output; cause is the exception that ends the
\* command, exit_code the process's exit code once it has ended
ReplicateCommand(input, output) ==
    [at |-> "check_input", input |-> input, output |-> output,
     cause |-> "none", exit_code |-> -1]

\* the command ends with sys.exit(code), or by returning when code is 0
Exit(code) == cli' = [cli EXCEPT !.at = "exited", !.exit_code = code]

\* line 244: sys.exit(0) in the handler of KeyboardInterrupt
InterruptExitCode == 0

\* line 247: sys.exit(1) in the handler of Exception
FailureExitCode == 1

\* the exit code of the handlers at lines 242-247 for an exception that
\* left the try block, 0 when none did and the function returned
ExitCodeFor(cause) ==
    CASE cause = "none" -> 0
      [] cause = "KeyboardInterrupt" -> InterruptExitCode
      [] OTHER -> FailureExitCode

\* lines 130-132: a missing input file ends the command with sys.exit(1)
ReplicateCheckInput ==
    /\ cli.at = "check_input"
    /\ IF cli.input = ExistingVideo
       THEN cli' = [cli EXCEPT !.at = "configure"]
       ELSE cli' = [cli EXCEPT !.at = "exited", !.cause = "missing input",
                               !.exit_code = 1]
    /\ UNCHANGED <<self, starterVars, envVars, cancelVars, remoteVars,
                   cleanupVars, fnVars, readerVars>>

\* lines 135-207: the configuration is loaded and completed and the
\* WorkflowManager is created, or one of these raises
ReplicateConfigure ==
    /\ cli.at = "configure"
    /\ \/ cli' = [cli EXCEPT !.at = "start"]
       \/ cli' = [cli EXCEPT !.at = "exited", !.cause = "Exception",
                             !.exit_code = ExitCodeFor("Exception")]
    /\ UNCHANGED <<self, starterVars, envVars, cancelVars, remoteVars,
                   cleanupVars, fnVars, readerVars>>

\* line 211: the command is inside workflow_manager.start_workflow
InStart ==
    /\ cli.at = "start"
    /\ outcome[MainStarter] \in {"none", "running"}

\* line 211: start_workflow is called with args.input, and runs
ReplicateStart ==
    /\ InStart
    /\ \/ \E cfg \in Configs : StartWorkflow(MainStarter, cli.input, cfg)
       \/ /\ pc[MainStarter] # "idle"
          /\ StarterStep(MainStarter, Configs)

\* line 211: start_workflow has returned, or has raised and the finally
\* clause is next
ReplicateStartEnded ==
    /\ cli.at = "start"
    /\ outcome[MainStarter] \in {"returned", "raised"}
    /\ cli' = IF outcome[MainStarter] = "returned"
              THEN [cli EXCEPT !.at = "report"]
              ELSE [cli EXCEPT !.at = "cleanup", !.cause = "Exception"]
    /\ UNCHANGED <<self, starterVars, envVars, cancelVars, remoteVars,
                   cleanupVars, fnVars, readerVars>>

\* lines 214-237: with --output the output video is moved to the
\* requested path, and the result is printed; the move may raise
ReplicateReport ==
    /\ cli.at = "report"
    /\ \/ /\ cli' = [cli EXCEPT !.at = "cleanup"]
          /\ fs_output' =
               IF cli.output /\ OutputExists(self, fs_output)
               THEN {f \in fs_output : f.path # self.output_video_path}
                    \cup {[path |-> RequestedOutput,
                           session |-> f.session] :
                          f \in {g \in fs_output :
                                   g.path = self.output_video_path}}
               ELSE fs_output
       \/ /\ cli.output /\ OutputExists(self, fs_output)
          /\ cli' = [cli EXCEPT !.at = "cleanup", !.cause = "Exception"]
          /\ UNCHANGED fs_output
    /\ UNCHANGED <<self, starterVars, calls, uuid_count, fs_dirs,
                   remote_tasks, remote_cancels, cancelVars, remoteVars,
                   cleanupVars, fnVars, readerVars>>

\* lines 239-247: the finally clause calls workflow_manager.cleanup(),
\* then the handler of the pending exception, if any, ends the command
ReplicateCleanup ==
    /\ cli.at = "cleanup"
    /\ LET after == cleanup(self, fs_dirs, fs_output, TRUE) IN
         /\ client_closed' = after.client_closed
         /\ fs_dirs' = after.fs_dirs
         /\ fs_output' = after.fs_output
         /\ last_cleanup' = [keep_results |-> TRUE, raised |-> after.raised]
    /\ cleanups' = cleanups + 1
    /\ Exit(ExitCodeFor(cli.cause))
    /\ UNCHANGED <<self, starterVars, calls, uuid_count, remote_tasks,
                   remote_cancels, cancelVars, remoteVars, fnVars, readerVars>>

\* a faulty variant in which an interruption goes to the handler at line
\* 242 directly, as if start_workflow were not inside try ... finally
ReplicateInterrupt_skips_finally ==
    /\ cli.at \in {"check_input", "configure", "start", "report"}
    /\ cli' = [cli EXCEPT !.at = "exited", !.cause = "KeyboardInterrupt",
                          !.exit_code = ExitCodeFor("KeyboardInterrupt")]
    /\ IF pc[MainStarter] # "idle"
       THEN /\ Goto(MainStarter, "idle")
            /\ outcome' = [outcome EXCEPT ![MainStarter] = "interrupted"]
            /\ LocalsEnd(MainStarter)
            /\ UNCHANGED <<arg_input, arg_config, exc, ret, visited,
                           logged, requests, uploaded>>
       ELSE UNCHANGED <<starterVars, remoteVars>>
    /\ UNCHANGED <<self, envVars, cancelVars, cleanupVars, fnVars, readerVars>>

\* the user interrupts the command: KeyboardInterrupt is raised in the main
\* thread wherever it is; no handler of Exception catches it, so a running
\* start_workflow is left without _set_failed_state; before the manager
\* exists the handler at line 242 is next, after it the finally clause
ReplicateInterrupt ==
    /\ cli.at \in {"check_input", "configure", "start", "report"}
    /\ IF cli.at \in {"check_input", "configure"}
       THEN cli' = [cli EXCEPT !.at = "exited",
                      !.cause = "KeyboardInterrupt",
                      !.exit_code = ExitCodeFor("KeyboardInterrupt")]
       ELSE cli' = [cli EXCEPT !.at = "cleanup",
                      !.cause = "KeyboardInterrupt"]
    /\ IF pc[MainStarter] # "idle"
       THEN /\ Goto(MainStarter, "idle")
            /\ outcome' = [outcome EXCEPT ![MainStarter] = "interrupted"]
            /\ LocalsEnd(MainStarter)
            /\ UNCHANGED <<arg_input, arg_config, exc, ret, visited,
                           logged, requests, uploaded>>
       ELSE UNCHANGED <<starterVars, remoteVars>>
    /\ UNCHANGED <<self, envVars, cancelVars, cleanupVars, fnVars, readerVars>>

\* the state in which the replicate command is entered
InitReplicate ==
    /\ self = InitialManager
    /\ pc = [t \in Starters |-> "idle"]
    /\ arg_input = [t \in Starters |-> ExistingVideo]
    /\ arg_config = [t \in Starters |-> Config(FALSE, FALSE, FALSE, FALSE)]
    /\ has_replacement = [t \in Starters |-> FALSE]
    /\ processed_dir = [t \in Starters |-> {}]
    /\ result_frame_paths = [t \in Starters |-> <<>>]
    /\ exc = [t \in Starters |-> "none"]
    /\ outcome = [t \in Starters |-> "none"]
    /\ ret = [t \in Starters |-> NoResult]
    /\ visited = [t \in Starters |-> <<>>]
    /\ logged = [t \in Starters |-> {}]
    /\ calls = 0
    /\ uuid_count = 0
    /\ fs_dirs = {}
    /\ fs_output = {}
    /\ remote_tasks = 0
    /\ remote_cancels = {}
    /\ cpc = "idle"
    /\ cancel_result = "none"
    /\ cancel_sent = FALSE
    /\ cancel_raised = FALSE
    /\ cancel_workflow_id = None
    /\ task_status = [t \in Starters |-> NoReply]
    /\ requests = [t \in Starters |-> {}]
    /\ uploaded = [t \in Starters |-> NoUpload]
    /\ client_closed = FALSE
    /\ cleanups = 0
    /\ last_cleanup = NoCleanup
    /\ gs = NoReader
    /\ fn = NoCall
    /\ cli \in {ReplicateCommand(i, o) : i \in Inputs, o \in BOOLEAN}

\* the replicate command from its entry to the end of the process
NextReplicate ==
    \/ ReplicateCheckInput
    \/ ReplicateConfigure
    \/ ReplicateStart
    \/ ReplicateStartEnded
    \/ ReplicateReport
    \/ ReplicateCleanup
    \/ ReplicateInterrupt

SpecReplicate == InitReplicate /\ [][NextReplicate]_vars
\* ------------------------------------------- the frame functions alone
\* max_frames = None
NoCap == -1

\* a call extract_frames(video, dir, frame_rate, max_frames) on a video
\* with native rate video_fps that holds total_frames frames
ExtractCall(video_fps, total_frames, frame_rate, max_frames) ==
    [op |-> "extract_frames", at |-> "setup", video_fps |-> video_fps,
     total_frames |-> total_frames, frame_rate |-> frame_rate,
     max_frames |-> max_frames, extract_interval |-> 1, frame_count |-> 0,
     extracted_count |-> 0, raised |-> "none"]

ExtractCalls ==
    {ExtractCall(f, n, r, m) : f \in 1..MaxRate, n \in 0..MaxSource,
                               r \in 0..MaxRate,
                               m \in {NoCap} \cup 0..MaxCap}

\* a call preprocess_frames(frame_paths, dir) with a pool of max_workers
\* threads; pending holds the frames whose future has not completed
PreprocessCall(n, max_workers) ==
    [op |-> "preprocess_frames", at |-> "collect",
     frame_paths |-> [i \in 1..n |-> Frame(i, "frames")],
     max_workers |-> max_workers, pending |-> 1..n,
     processed_paths |-> <<>>, failed |-> {}]

PreprocessCalls ==
    {PreprocessCall(n, w) : n \in 0..MaxPool, w \in 1..MaxWorkers}

\* what cv2.imread gives for a frame file: None, or an image of one of
\* two sizes
Unreadable == "unreadable"
ImageSizes == {"640x480", "1280x720"}

\* the sequences of length 0..n over a set
RECURSIVE SeqsUpTo(_, _)
SeqsUpTo(S, n) ==
    IF n = 0 THEN {<<>>}
    ELSE LET shorter == SeqsUpTo(S, n - 1)
         IN  shorter \cup {Append(q, x) : q \in shorter, x \in S}

\* a call frames_to_video(frame_paths, output_path); images[i] is what
\* imread gives for frame_paths[i], written the frames passed to out.write
ComposeCall(images) ==
    [op |-> "frames_to_video", at |-> "setup", images |-> images,
     size |-> "none", i |-> 1, written |-> <<>>, raised |-> "none"]

ComposeCalls ==
    {ComposeCall(q) : q \in SeqsUpTo(ImageSizes \cup {Unreadable}, MaxCompose)}

\* ReplacementProcessor: the categories in the order process_frame tests
\* them
ReplaceTypes == <<"person", "background", "product">>

\* a faulty variant that takes the categories in the opposite order
replacement_types_reversed(config) ==
    LET enabled(k) == config[ReplaceTypes[4 - k]]
        RECURSIVE from(_)
        from(k) == IF k > 3 THEN <<>>
                   ELSE IF enabled(k) THEN <<ReplaceTypes[4 - k]>> \o from(k + 1)
                   ELSE from(k + 1)
    IN  from(1)

\* replacement_types of process_frame: the enabled categories, appended in
\* the order person, background, product
replacement_types(config) ==
    LET RECURSIVE from(_)
        from(k) == IF k > 3 THEN <<>>
                   ELSE IF config[ReplaceTypes[k]]
                   THEN <<ReplaceTypes[k]>> \o from(k + 1)
                   ELSE from(k + 1)
    IN  from(1)

\* the content of an image file: the frame it shows and the categories
\* that were replaced in it, in the order they were applied
Image(i, applied) == [idx |-> i, applied |-> applied]

\* temp_{replace_type}_{frame_name} in the output directory
TempFrame(type, i) == Frame(i, "replaced_frames/temp_" \o type)

\* the files of a file store (a set of [path, image]) at a path
FilesAt(files, path) == {f \in files : f.path = path}

\* safe_copy(src, dst) with overwrite = False: nothing is copied when src
\* is no file or dst exists
safe_copy(files, src, dst) ==
    IF FilesAt(files, src) = {} \/ FilesAt(files, dst) # {}
    THEN files
    ELSE files \cup {[path |-> dst, image |-> f.image] : f \in FilesAt(files, src)}

\* the outcomes of one category on one frame
ReplaceOutcomes == {"not detected", "no mask", "composite failed", "applied"}

\* a call process_frames_batch(frame_paths, config, output_dir) on n
\* frames in the processed_frames directory, with an empty output
\* directory; log records, for each category that ran, the image it was
\* given and how it ended
ReplaceCall(n, config) ==
    [op |-> "process_frames_batch", at |-> "batch",
     frame_paths |-> [i \in 1..n |-> Frame(i, "processed_frames")],
     config |-> config, i |-> 1, types |-> <<>>, k |-> 1,
     current_image |-> Frame(0, "none"),
     files |-> {[path |-> Frame(i, "processed_frames"),
                 image |-> Image(i, <<>>)] : i \in 1..n},
     log |-> <<>>, processed_paths |-> <<>>]

\* the 'replacement' configurations: every choice of enabled categories
ReplaceConfigs ==
    {Config(TRUE, p, b, q) : p \in BOOLEAN, b \in BOOLEAN, q \in BOOLEAN}

ReplaceCalls ==
    {ReplaceCall(n, c) : n \in 0..MaxBatch, c \in ReplaceConfigs}

\* the state before a frame function is called on its own
InitFrames ==
    /\ self = InitialManager
    /\ pc = [t \in Starters |-> "idle"]
    /\ arg_input = [t \in Starters |-> ExistingVideo]
    /\ arg_config = [t \in Starters |-> Config(FALSE, FALSE, FALSE, FALSE)]
    /\ has_replacement = [t \in Starters |-> FALSE]
    /\ processed_dir = [t \in Starters |-> {}]
    /\ result_frame_paths = [t \in Starters |-> <<>>]
    /\ exc = [t \in Starters |-> "none"]
    /\ outcome = [t \in Starters |-> "none"]
    /\ ret = [t \in Starters |-> NoResult]
    /\ visited = [t \in Starters |-> <<>>]
    /\ logged = [t \in Starters |-> {}]
    /\ calls = 0
    /\ uuid_count = 0
    /\ fs_dirs = {}
    /\ fs_output = {}
    /\ remote_tasks = 0
    /\ remote_cancels = {}
    /\ cpc = "idle"
    /\ cancel_result = "none"
    /\ cancel_sent = FALSE
    /\ cancel_raised = FALSE
    /\ cancel_workflow_id = None
    /\ task_status = [t \in Starters |-> NoReply]
    /\ requests = [t \in Starters |-> {}]
    /\ uploaded = [t \in Starters |-> NoUpload]
    /\ client_closed = FALSE
    /\ cleanups = 0
    /\ last_cleanup = NoCleanup
    /\ gs = NoReader
    /\ fn \in ExtractCalls \cup PreprocessCalls \cup ComposeCalls
               \cup ReplaceCalls
    /\ cli = NoCommand

\* processor.py lines 84-87: extract_interval, with Python's division by
\* zero when frame_rate is 0
ExtractSetup ==
    /\ fn.op = "extract_frames"
    /\ fn.at = "setup"
    /\ fn' =
         IF fn.frame_rate < fn.video_fps
         THEN IF fn.frame_rate = 0
              THEN [fn EXCEPT !.at = "done", !.raised = "ZeroDivisionError"]
              ELSE [fn EXCEPT !.at = "loop",
                     !.extract_interval = fn.video_fps \div fn.frame_rate]
         ELSE [fn EXCEPT !.at = "loop"]
    /\ UNCHANGED ManagerVars

\* processor.py lines 100-122: one iteration of the while loop
ExtractRead ==
    /\ fn.op = "extract_frames"
    /\ fn.at = "loop"
    /\ fn' =
         IF fn.frame_count >= fn.total_frames
         THEN [fn EXCEPT !.at = "done"]
         ELSE IF fn.frame_count % fn.extract_interval = 0
         THEN IF fn.max_frames # NoCap
                 /\ fn.extracted_count + 1 >= fn.max_frames
              THEN [fn EXCEPT !.extracted_count = @ + 1, !.at = "done"]
              ELSE [fn EXCEPT !.extracted_count = @ + 1,
                              !.frame_count = @ + 1]
         ELSE [fn EXCEPT !.frame_count = @ + 1]
    /\ UNCHANGED ManagerVars

\* the frames a pool of max_workers threads can have finished next: those
\* with fewer than max_workers unfinished frames submitted before them
CanComplete(call) ==
    {i \in call.pending :
        Cardinality({j \in call.pending : j < i}) < call.max_workers}

\* processor.py lines 181-193: as_completed yields one future; its result
\* is appended, or its exception is logged and the frame left out
PreprocessCollect ==
    /\ fn.op = "preprocess_frames"
    /\ fn.at = "collect"
    /\ fn.pending # {}
    /\ \E i \in CanComplete(fn) :
         \/ fn' = [fn EXCEPT !.pending = @ \ {i},
                             !.processed_paths =
                                Append(@, Frame(i, "processed_frames"))]
         \/ fn' = [fn EXCEPT !.pending = @ \ {i}, !.failed = @ \cup {i}]
    /\ UNCHANGED ManagerVars

\* processor.py line 203: return processed_paths
PreprocessReturn ==
    /\ fn.op = "preprocess_frames"
    /\ fn.at = "collect"
    /\ fn.pending = {}
    /\ fn' = [fn EXCEPT !.at = "done"]
    /\ UNCHANGED ManagerVars

\* processor.py lines 290-303: the empty list and an unreadable first
\* frame raise ValueError; the size of the video is that of the first frame
ComposeSetup ==
    /\ fn.op = "frames_to_video"
    /\ fn.at = "setup"
    /\ fn' =
         IF fn.images = <<>>
         THEN [fn EXCEPT !.at = "done", !.raised = "empty frame list"]
         ELSE IF fn.images[1] = Unreadable
         THEN [fn EXCEPT !.at = "done",
                         !.raised = "cannot read first frame"]
         ELSE [fn EXCEPT !.at = "loop", !.size = fn.images[1]]
    /\ UNCHANGED ManagerVars

\* processor.py lines 312-325: one iteration of the for loop; a frame that
\* does not load is skipped, another is resized when its size differs and
\* written
ComposeWrite ==
    /\ fn.op = "frames_to_video"
    /\ fn.at = "loop"
    /\ fn' =
         IF fn.i > Len(fn.images)
         THEN [fn EXCEPT !.at = "done"]
         ELSE IF fn.images[fn.i] = Unreadable
         THEN [fn EXCEPT !.i = @ + 1]
         ELSE [fn EXCEPT !.i = @ + 1,
                 !.written = Append(@, [idx |-> fn.i, size |-> fn.size,
                                        resized |-> fn.images[fn.i] # fn.size])]
    /\ UNCHANGED ManagerVars

\* replacement_processor.py lines 269-272 and 186-217: the batch loop
\* takes the next frame and process_frame begins; with no category
\* enabled the frame is copied and its output path appended
ReplaceBegin ==
    /\ fn.op = "process_frames_batch"
    /\ fn.at = "batch"
    /\ LET types == replacement_types(fn.config)
           frame_path == fn.frame_paths[fn.i]
           output_path == Frame(frame_path.idx, "replaced_frames")
       IN  fn' =
             IF fn.i > Len(fn.frame_paths)
             THEN [fn EXCEPT !.at = "done"]
             ELSE IF types = <<>>
             THEN [fn EXCEPT !.files = safe_copy(@, frame_path, output_path),
                             !.processed_paths = Append(@, output_path),
                             !.i = @ + 1]
             ELSE [fn EXCEPT !.at = "category", !.types = types, !.k = 1,
                             !.current_image = frame_path]
    /\ UNCHANGED ManagerVars

\* lines 218-238: one iteration of the loop over replacement_types;
\* detect_objects, create_mask and apply_replacement catch their
\* exceptions and report them by their result, and only a composite that
\* succeeded becomes the current image
ReplaceCategory ==
    /\ fn.op = "process_frames_batch"
    /\ fn.at = "category"
    /\ fn.k <= Len(fn.types)
    /\ LET type == fn.types[fn.k]
           idx == fn.frame_paths[fn.i].idx
           temp_output == TempFrame(type, idx)
           entry(how) == [idx |-> idx, type |-> type,
                              input |-> fn.current_image,
                              outcome |-> how]
       IN  \E how \in ReplaceOutcomes :
             fn' =
               IF how = "applied"
               THEN [fn EXCEPT
                       !.files = {f \in @ : f.path # temp_output} \cup
                          {[path |-> temp_output,
                            image |-> Image(g.image.idx,
                                            Append(g.image.applied, type))] :
                             g \in FilesAt(fn.files, fn.current_image)},
                       !.current_image = temp_output,
                       !.log = Append(@, entry(how)),
                       !.k = @ + 1]
               ELSE [fn EXCEPT !.log = Append(@, entry(how)),
                               !.k = @ + 1]
    /\ UNCHANGED ManagerVars

\* lines 240-253 and 271-272: the current image is copied to the output
\* path, the temporary files are removed, and the batch appends the
\* output path
ReplaceStore ==
    /\ fn.op = "process_frames_batch"
    /\ fn.at = "category"
    /\ fn.k > Len(fn.types)
    /\ LET idx == fn.frame_paths[fn.i].idx
           output_path == Frame(idx, "replaced_frames")
           temps == {TempFrame(fn.types[j], idx) : j \in DOMAIN fn.types}
           copied == safe_copy(fn.files, fn.current_image, output_path)
       IN  fn' = [fn EXCEPT
                    !.files = {f \in copied : f.path \notin temps},
                    !.processed_paths = Append(@, output_path),
                    !.i = @ + 1, !.at = "batch"]
    /\ UNCHANGED ManagerVars

NextFrames ==
    \/ ExtractSetup
    \/ ExtractRead
    \/ PreprocessCollect
    \/ PreprocessReturn
    \/ ComposeSetup
    \/ ComposeWrite
    \/ ReplaceBegin
    \/ ReplaceCategory
    \/ ReplaceStore

SpecFrames == InitFrames /\ [][NextFrames]_vars

\* ================================================================ claims
\* the steps that belong to a new start() request: _reset_state, and the
\* failure handler of a start() whose input video is missing
NewStartStep(t) ==
    \/ pc[t] \in {"reset", "init"}
    \/ pc[t] \in {"outer_failed_status", "outer_failed_end_time"}
       /\ exc[t] = "FileNotFoundError"

\* C1: once the status is failed or canceled, no step other than one of a
\* new start() request changes it.
C1_AbsorbingStatuses ==
    [][(self.status \in {STATUS_FAILED, STATUS_CANCELED}
        /\ ~NewStartStep(MainStarter))
       => self'.status = self.status]_vars

\* what one step of a cancel() that found a non-terminal status does
C2_CancelStep ==
    /\ (cpc = "guard" /\ cpc' # cpc
          /\ self.status \notin {STATUS_COMPLETED, STATUS_FAILED,
                                 STATUS_CANCELED})
       => cpc' = "set_status"
    /\ (cpc = "set_status" /\ cpc' # cpc)
       => /\ self'.status = STATUS_CANCELED
          /\ pc' = pc
    /\ (cpc = "set_end_time" /\ cpc' # cpc)
       => /\ self'.end_time # None
          /\ self'.end_time # self.end_time
          /\ pc' = pc
    /\ (cpc = "remote" /\ cpc' # cpc)
       => /\ cpc' = "idle"
          /\ cancel_result' = "success"
          /\ cancel_sent' = (self.task_id # None)
          /\ IF self.task_id # None
             THEN remote_cancels' = remote_cancels \cup {self.task_id}
             ELSE remote_cancels' = remote_cancels

\* C2: a cancel() that passes the guard writes status canceled and a new
\* ended_at in steps of its own, without waiting for a step of start();
\* it sends the remote cancel exactly when task_id is set, and it ends
\* with a success outcome also when the remote cancel raised.
C2_CancelNonTerminal == [][C2_CancelStep]_vars

\* C2 witness: a cancel issued while start() is running has returned
\* success although its remote cancel raised.
C2_Witness ==
    /\ cpc = "idle"
    /\ cancel_result = "success"
    /\ cancel_sent
    /\ cancel_raised
    /\ self.status = STATUS_CANCELED
    /\ self.end_time # None
    /\ pc[MainStarter] = "poll_sleep"

\* C3: a cancel() that finds the status completed, failed or canceled
\* ends with a non-success outcome, sends no remote cancel and changes no
\* field of the session.
C3_CancelTerminal ==
    [][(cpc = "guard" /\ cpc' # cpc
        /\ self.status \in {STATUS_COMPLETED, STATUS_FAILED, STATUS_CANCELED})
       => /\ cpc' = "idle"
          /\ cancel_result' = "failure"
          /\ ~cancel_sent'
          /\ remote_cancels' = remote_cancels
          /\ self' = self]_vars

\* C3 witness: cancel() was refused on a completed session whose ended_at
\* was written once.
C3_Witness ==
    /\ cpc = "idle"
    /\ cancel_result = "failure"
    /\ self.status = STATUS_COMPLETED
    /\ self.end_time = 1
    /\ self.task_id # None

\* C4: within one session the progress never decreases, it is 100 when
\* start() returns, and it does not change while the status is failed or
\* canceled.
C4_Progress ==
    [][/\ ~NewStartStep(MainStarter) => self'.progress >= self.progress
       /\ (pc[MainStarter] = "return" /\ pc'[MainStarter] = "idle")
          => self.progress = 100
       /\ (self.status \in {STATUS_FAILED, STATUS_CANCELED}
           /\ ~NewStartStep(MainStarter))
          => self'.progress = self.progress]_vars

\* C5: once ended_at is written, no step other than one of a new start()
\* request writes it again.
C5_EndedAtOnce ==
    [][(self.end_time # None /\ ~NewStartStep(MainStarter))
       => self'.end_time = self.end_time]_vars

\* the positions of the two failure handlers
FailurePcs == {"inner_failed_status", "inner_failed_end_time",
               "outer_failed_status", "outer_failed_end_time", "raise"}

\* what one step of start() does from the raise of a pipeline step on
C6_FailureStep(t) ==
    /\ (pc[t] \notin FailurePcs /\ pc[t] # "idle" /\ pc'[t] \in FailurePcs)
       => /\ pc'[t] = "inner_failed_status"
          /\ exc'[t] # "none"
    /\ (pc[t] = "inner_failed_status" /\ pc'[t] # pc[t])
       => /\ self'.status = STATUS_FAILED
          /\ pc'[t] = "inner_failed_end_time"
    /\ (pc[t] = "inner_failed_end_time" /\ pc'[t] # pc[t])
       => /\ self'.end_time # None
          /\ self'.end_time # self.end_time
          /\ \E l \in logged'[t] : l.message = exc[t]
    /\ (pc[t] \in FailurePcs /\ pc'[t] # pc[t])
       => /\ pc'[t] \in FailurePcs \cup {"idle"}
          /\ exc'[t] = exc[t]
          /\ fs_output' = fs_output
          /\ remote_tasks' = remote_tasks
          /\ self'.progress = self.progress
    /\ (pc[t] \in FailurePcs /\ pc'[t] = "idle")
       => /\ pc[t] = "raise"
          /\ outcome'[t] = "raised"
          /\ exc'[t] # "none"

\* C6 (as amended): when a pipeline step raises, the handler writes status
\* failed, then ended_at, and passes the message to the error log; no
\* pipeline step runs after it, and start() raises that same exception.
C6_FailureRecorded == [][C6_FailureStep(MainStarter)]_vars

\* C6 witness: start() has raised the error of a failed remote task, the
\* session is failed with ended_at set and the message is in the log.
C6_Witness ==
    /\ outcome[MainStarter] = "raised"
    /\ exc[MainStarter] = "workflow failed: out of memory"
    /\ self.status = STATUS_FAILED
    /\ self.end_time # None
    /\ self.task_id # None
    /\ \E l \in logged[MainStarter] : l.message = "workflow failed: out of memory"

\* C6 as stated: after start() raised, the session holds the error
\* message in a field of its own, next to status failed and ended_at.
C6_ErrorInSession ==
    outcome[MainStarter] = "raised"
    => \E f \in {"error", "error_message"} :
         f \in DOMAIN self \/ f \in DOMAIN StatusInfo(self)

\* a sequence of statuses with consecutive repetitions removed
RECURSIVE Collapse(_)
Collapse(s) ==
    IF Len(s) <= 1 THEN s
    ELSE IF s[1] = s[2] THEN Collapse(Tail(s))
    ELSE <<s[1]>> \o Collapse(Tail(s))

\* the pipeline order of the specification for a configuration
PipelineOrder(cfg) ==
    <<STATUS_IDLE, STATUS_PREPARING, STATUS_EXTRACTING_FRAMES,
      STATUS_PREPROCESSING_FRAMES>>
    \o (IF cfg.person \/ cfg.background \/ cfg.product
        THEN <<STATUS_LOCAL_REPLACEMENT>> ELSE <<>>)
    \o <<STATUS_UPLOADING_FRAMES, STATUS_EXECUTING_WORKFLOW,
         STATUS_DOWNLOADING_RESULTS, STATUS_COMPOSING_VIDEO,
         STATUS_COMPLETED>>

\* C7: when start() has returned, every status of the pipeline was
\* entered, the returned status is completed, the progress is 100 and the
\* output video at the returned path was written by this session.
C7_AllOrRaise ==
    outcome[MainStarter] = "returned"
    => /\ Collapse(visited[MainStarter]) = PipelineOrder(arg_config[MainStarter])
       /\ ret[MainStarter].status = STATUS_COMPLETED
       /\ self.progress = 100
       /\ [path |-> ret[MainStarter].output_video,
           session |-> ret[MainStarter].workflow_id] \in fs_output
\* the statuses a call wrote before its failure handlers ran
BeforeFailure(v) ==
    IF v # <<>> /\ Last(v) = STATUS_FAILED THEN SubSeq(v, 1, Len(v) - 1)
    ELSE v

IsPrefix(a, b) == Len(a) <= Len(b) /\ a = SubSeq(b, 1, Len(a))

\* what start() itself writes to the status, whatever cancel() does in
\* between: up to its failure, if any, the values follow the pipeline
\* order from idle on without a gap and without a return,
\* local_replacement_preprocessing being among them exactly when a
\* replacement category is enabled; a call that returns has written all
\* of them, and the status field holds the last of them unless cancel()
\* has written canceled over it.
StartWritesForward ==
    LET v == BeforeFailure(Collapse(visited[MainStarter]))
        order == PipelineOrder(arg_config[MainStarter])
    IN  /\ IsPrefix(v, order)
        /\ outcome[MainStarter] = "returned" => v = order
        /\ \/ visited[MainStarter] = <<>>
           \/ self.status = Last(visited[MainStarter])
           \/ self.status = STATUS_CANCELED

\* the place of status x in the order s
Position(s, x) == CHOOSE i \in DOMAIN s : s[i] = x

\* C8: during one start() call every change of the status to a status of
\* the pipeline order goes from a status of that order to the one that
\* follows it for the call's configuration, so that no status is skipped
\* and none is entered again; changes to failed and canceled are left
\* aside.
C8_StatusForward ==
    [][LET order == PipelineOrder(arg_config[MainStarter])
       IN  (/\ self'.status # self.status
            /\ ~NewStartStep(MainStarter)
            /\ self'.status \notin {STATUS_FAILED, STATUS_CANCELED})
           => /\ self.status \in Range(order)
              /\ self'.status \in Range(order)
              /\ Position(order, self'.status)
                   = Position(order, self.status) + 1]_vars

\* starter u is inside a session it has set up
InSession(u) == pc[u] \notin ({"idle", "reset", "init"} \cup FailurePcs)

\* C9: a start() request made while another start() is inside a session
\* of non-terminal status does not overwrite the session id, the working
\* directory, the frame lists or the task id.
C9_OneActiveSession ==
    [][\A t \in Starters, u \in Starters :
         (/\ t # u
          /\ InSession(u)
          /\ self.status \notin TerminalStatuses
          /\ pc[t] \in {"reset", "init"}
          /\ pc'[t] # pc[t])
         => /\ self'.workflow_id = self.workflow_id
            /\ self'.working_dir = self.working_dir
            /\ self'.frame_paths = self.frame_paths
            /\ self'.processed_frame_paths = self.processed_frame_paths
            /\ self'.task_id = self.task_id]_vars

\* C10: once cancel() has returned success for the session start() is
\* polling for, the next iteration of the poll loop does not go back to
\* sleep and poll again.
C10_PollObservesCancel ==
    [][(/\ pc[MainStarter] = "poll"
        /\ cpc = "idle"
        /\ cancel_result = "success"
        /\ self.status = STATUS_CANCELED
        /\ pc'[MainStarter] # pc[MainStarter])
       => pc'[MainStarter] # "poll_sleep"]_vars

\* the message msg ends with the text e
EndsWith(msg, e) ==
    /\ Len(msg) >= Len(e)
    /\ SubSeq(msg, Len(msg) - Len(e) + 1, Len(msg)) = e

\* what the steps of start() around one poll of the remote status do,
\* Attached(reply, msg) saying how the raised message relates to the
\* remote answer
C11_PollStep(t, Attached(_, _)) ==
    /\ (pc[t] = "poll" /\ pc'[t] # pc[t]
          /\ exc'[t] # "status request failed")
       => LET reply == task_status'[t]
          IN  /\ "get_task_status" \in requests'[t]
              /\ reply.status = "completed"
                 => pc'[t] = "progress80" /\ exc'[t] = "none"
              /\ reply.status \in {"failed", "canceled"}
                 => /\ pc'[t] = "inner_failed_status"
                    /\ Attached(reply, exc'[t])
              /\ reply.status \notin {"completed", "failed", "canceled"}
                 => pc'[t] = "poll_sleep" /\ exc'[t] = "none"
    /\ (pc[t] = "poll_sleep" /\ pc'[t] # pc[t]) => pc'[t] = "poll"
    /\ (pc[t] = "progress80" /\ pc'[t] # pc[t]) => pc'[t] = "download"
    /\ (pc[t] = "download" /\ pc'[t] # pc[t])
       => self'.status = STATUS_DOWNLOADING_RESULTS
    /\ (pc[t] = "inner_failed_status" /\ pc'[t] # pc[t]
          /\ task_status[t].status \in {"failed", "canceled"})
       => self'.status = STATUS_FAILED

\* the message raised for a failed task names the remote error, or an
\* unknown error when the remote gave none; the message raised for a
\* canceled task is a fixed one
MessageOfCode(reply, msg) ==
    IF reply.status = "failed"
    THEN EndsWith(msg, IF reply.error = "none" THEN "unknown error"
                       ELSE reply.error)
    ELSE msg = "workflow canceled"

\* the remote error message, when there is one, is in the raised message
MessageOfRemote(reply, msg) ==
    reply.error # "none" => EndsWith(msg, reply.error)

\* C11 (as amended): in executing_workflow the core polls the remote
\* status until it sees completed, failed or canceled; on completed it
\* goes on to downloading_results; on failed and on canceled it raises
\* and the failure handler writes status failed; the raised message names
\* the remote error for a failed task and is a fixed text for a canceled
\* one; any other status value causes another poll.
C11_PollLoop == [][C11_PollStep(MainStarter, MessageOfCode)]_vars

\* C11 witness: the remote task was reported canceled with an error
\* entry, and the handler has written failed for the fixed message.
C11_Witness ==
    /\ pc[MainStarter] = "inner_failed_end_time"
    /\ task_status[MainStarter] =
         [status |-> "canceled", error |-> "out of memory",
          replaced_frames |-> "absent"]
    /\ exc[MainStarter] = "workflow canceled"
    /\ self.status = STATUS_FAILED

\* C11 as stated: the same, with the remote error message attached to
\* the failure for a failed and for a canceled remote task alike.
C11_RemoteErrorAttached == [][C11_PollStep(MainStarter, MessageOfRemote)]_vars

\* C12: a call that has entered uploading_frames has made the
\* connectivity check before; the check is made once per call; when it
\* fails, the call goes to the failure handler, which writes failed, it
\* never enters uploading_frames, and it sends no submit and no upload.
C12_ConnectivityCheck ==
    LET t == MainStarter
    IN  /\ STATUS_UPLOADING_FRAMES \in Range(visited[t])
           => "test_connection" \in requests[t]
        /\ pc[t] = "connect" => "test_connection" \notin requests[t]
        /\ exc[t] = "cannot connect to ComfyUI"
           => /\ pc[t] \in FailurePcs \cup {"idle"}
              /\ STATUS_UPLOADING_FRAMES \notin Range(visited[t])
              /\ requests[t] = {"test_connection"}
              /\ uploaded[t] = NoUpload
              /\ self.task_id = None
              /\ pc[t] \in {"inner_failed_end_time", "outer_failed_status",
                            "outer_failed_end_time", "raise", "idle"}
                 => STATUS_FAILED \in Range(visited[t])
              /\ pc[t] = "idle" => outcome[t] = "raised"

\* C12 witness: start() has raised after a failed connectivity check,
\* having sent nothing else to the remote service.
C12_Witness ==
    /\ outcome[MainStarter] = "raised"
    /\ exc[MainStarter] = "cannot connect to ComfyUI"
    /\ requests[MainStarter] = {"test_connection"}
    /\ self.status = STATUS_FAILED
    /\ Len(self.processed_frame_paths) = 1

\* C13: when the submission returned no task id, with or without a
\* replacement category, the call is in its failure handler or has raised,
\* the handler writes failed, task_id is absent, and the call has sent no
\* upload and no status poll.
C13_NoTaskId ==
    LET t == MainStarter
    IN  exc[t] = "no task id"
        => /\ pc[t] \in FailurePcs \cup {"idle"}
           /\ self.task_id = None
           /\ "submit" \in requests[t]
           /\ "upload" \notin requests[t]
           /\ "get_task_status" \notin requests[t]
           /\ uploaded[t] = NoUpload
           /\ pc[t] \in {"inner_failed_end_time", "outer_failed_status",
                         "outer_failed_end_time", "raise", "idle"}
              => STATUS_FAILED \in Range(visited[t])
           /\ pc[t] = "idle" => outcome[t] = "raised"

\* C13 witness: a replacement task came back without a task id and
\* start() has raised.
C13_Witness ==
    /\ outcome[MainStarter] = "raised"
    /\ exc[MainStarter] = "no task id"
    /\ arg_config[MainStarter] = Config(TRUE, TRUE, FALSE, FALSE)
    /\ STATUS_LOCAL_REPLACEMENT \in Range(visited[MainStarter])
    /\ self.status = STATUS_FAILED

BeforeSubmission ==
    {"init", "prepare", "extract_status", "extract", "progress20",
     "preprocess_status", "preprocess", "progress40", "replace_status",
     "replace", "connect", "upload_status", "submit"}

\* C15: task_id is absent from _reset_state until the submission, and
\* once it holds a task id no step other than the _reset_state of a new
\* start() request changes it.
C15_TaskIdOnce ==
    /\ [](pc[MainStarter] \in BeforeSubmission => self.task_id = None)
    /\ [][(self.task_id # None /\ ~\E t \in Starters : pc[t] = "reset")
          => self'.task_id = self.task_id]_vars

\* C15 witness: the second session of the instance polls for a task id
\* of its own.
C15_Witness ==
    /\ pc[MainStarter] = "poll"
    /\ self.workflow_id = 2
    /\ self.task_id = 2
    /\ remote_tasks = 2

\* ceil(a / b) for b > 0
CeilDiv(a, b) == (a + b - 1) \div b

\* the interval I of the claim: max(1, floor(F / R)) when R < F, else 1.
\* For R = 0 the quotient is not defined, and such calls are left to
\* Defined below.
ClaimedInterval(call) ==
    IF 0 < call.frame_rate /\ call.frame_rate < call.video_fps
    THEN Max(1, call.video_fps \div call.frame_rate)
    ELSE 1

\* the calls for which the claimed interval is defined
Defined(call) == call.frame_rate > 0

\* C16: extract_frames returns min(M, ceil(T / I)) frames when the cap M
\* is given, M = 0 included, and ceil(T / I) frames otherwise, and it
\* raises nothing.
C16_ExtractedCount ==
    (fn.op = "extract_frames" /\ fn.at = "done" /\ Defined(fn))
    => LET all == CeilDiv(fn.total_frames, ClaimedInterval(fn))
       IN  /\ fn.raised = "none"
           /\ fn.extracted_count =
                IF fn.max_frames = NoCap THEN all
                ELSE Min(fn.max_frames, all)

\* the part of C16 the code keeps: with a cap of at least 1, or none, the
\* count is the claimed one.
ExtractedCountPositive ==
    (fn.op = "extract_frames" /\ fn.at = "done" /\ Defined(fn)
       /\ fn.max_frames # 0)
    => LET all == CeilDiv(fn.total_frames, ClaimedInterval(fn))
       IN  /\ fn.raised = "none"
           /\ fn.extracted_count =
                IF fn.max_frames = NoCap THEN all
                ELSE Min(fn.max_frames, all)

\* C17: when a pool of more than one worker has preprocessed every frame
\* it was given, the i-th path returned is the processed version of the
\* i-th frame, in whatever order the workers completed.
C17_ExtractionOrder ==
    (/\ fn.op = "preprocess_frames"
     /\ fn.at = "done"
     /\ fn.max_workers > 1
     /\ Len(fn.processed_paths) = Len(fn.frame_paths))
    => \A i \in DOMAIN fn.frame_paths :
         fn.processed_paths[i] = Frame(fn.frame_paths[i].idx,
                                       "processed_frames")

\* with a pool of one worker the order is kept
OneWorkerKeepsOrder ==
    (/\ fn.op = "preprocess_frames"
     /\ fn.at = "done"
     /\ fn.max_workers = 1
     /\ Len(fn.processed_paths) = Len(fn.frame_paths))
    => \A i \in DOMAIN fn.frame_paths :
         fn.processed_paths[i] = Frame(fn.frame_paths[i].idx,
                                       "processed_frames")

NoCategoryEnabled(cfg) == ~cfg.person /\ ~cfg.background /\ ~cfg.product

\* the positions of a call from the end of preprocessing to the end of
\* the replacement stage
ReplacementStage == {"progress40", "replace_status", "replace"}

\* C19: with no replacement category enabled, no step of the replacement
\* stage changes processed_frame_paths: the frames are the same files, as
\* many and in the same order, after the stage as before it
C19_PassThrough ==
    [][(pc[MainStarter] \in ReplacementStage
        /\ NoCategoryEnabled(arg_config[MainStarter]))
       => self'.processed_frame_paths = self.processed_frame_paths]_vars

\* a call whose configuration holds the 'replacement' key with no category
\* enabled is past the stage with the frames the preprocessor wrote
C19_Witness ==
    /\ pc[MainStarter] = "connect"
    /\ arg_config[MainStarter].replacement
    /\ NoCategoryEnabled(arg_config[MainStarter])
    /\ self.processed_frame_paths # <<>>
    /\ \A i \in DOMAIN self.processed_frame_paths :
          self.processed_frame_paths[i].dir = "processed_frames"

\* the extraction step of the call has ended and left no frame
ExtractedNothing(t) ==
    /\ STATUS_EXTRACTING_FRAMES \in Range(visited[t])
    /\ pc[t] # "extract"
    /\ self.frame_paths = <<>>

\* C20: when extraction yields zero frames the call fails at the
\* extraction step: it is in its failure handler or has ended, it never
\* enters preprocessing_frames, the progress is not 20, and it makes no
\* connectivity check, no submission and no upload.
C20_ZeroFrames ==
    LET t == MainStarter
    IN  ExtractedNothing(t)
        => /\ pc[t] \in FailurePcs \cup {"idle"}
           /\ STATUS_PREPROCESSING_FRAMES \notin Range(visited[t])
           /\ self.progress # 20
           /\ requests[t] = {}
           /\ uploaded[t] = NoUpload

\* a call that extracted no frame fails at the upload only, after the
\* connectivity check and the submission
ZeroFramesReachUpload ==
    LET t == MainStarter
    IN  (ExtractedNothing(t) /\ exc[t] = "no frames in directory")
        => /\ STATUS_PREPROCESSING_FRAMES \in Range(visited[t])
           /\ STATUS_UPLOADING_FRAMES \in Range(visited[t])
           /\ {"test_connection", "submit"} \subseteq requests[t]
           /\ self.task_id # None

\* the indices of the frames that load, in input order
Loadable(images) ==
    Sorted({i \in DOMAIN images : images[i] # Unreadable})

\* the frames the claimed composer writes: every loadable frame once, in
\* input order, at the size of the first loadable frame
ClaimedWritten(images) ==
    LET idx == Loadable(images)
    IN  [k \in DOMAIN idx |->
           [idx |-> idx[k], size |-> images[idx[1]],
            resized |-> images[idx[k]] # images[idx[1]]]]

\* C21: on a frame sequence with at least one loadable frame the composer
\* raises nothing and writes every loadable frame once, in input order, at
\* the size of the first frame that loads, also when the first entry of
\* the sequence does not load.
C21_ComposerSkips ==
    (/\ fn.op = "frames_to_video"
     /\ fn.at = "done"
     /\ Loadable(fn.images) # <<>>)
    => /\ fn.raised = "none"
       /\ fn.written = ClaimedWritten(fn.images)

\* the part of C21 the code keeps: when the first entry loads, the
\* composer writes what is claimed
FirstLoadsThenAsClaimed ==
    (/\ fn.op = "frames_to_video"
     /\ fn.at = "done"
     /\ fn.images # <<>>
     /\ fn.images[1] # Unreadable)
    => /\ fn.raised = "none"
       /\ fn.written = ClaimedWritten(fn.images)

\* the command has ended after a pipeline that succeeded: start_workflow
\* returned and nothing was raised afterwards
PipelineSucceeded ==
    /\ outcome[MainStarter] = "returned"
    /\ cli.cause = "none"

\* C22: the replicate command ends with exit code 0 only when the
\* pipeline succeeded, and with exit code 1 on a missing input, on any
\* exception and on a user interruption.
C22_ExitCode ==
    cli.at = "exited"
    => cli.exit_code = IF PipelineSucceeded THEN 0 ELSE 1

\* the part of C22 the code keeps: a command that was not interrupted ends
\* with 0 exactly when the pipeline succeeded, and with 1 otherwise
ExitCodeWithoutInterrupt ==
    (cli.at = "exited" /\ cli.cause # "KeyboardInterrupt")
    => cli.exit_code = IF PipelineSucceeded THEN 0 ELSE 1

\* the value of a setting the environment supplies, as the configuration
\* holds values of that setting
FromEnv(env, k) == IF k = "timeout" THEN int(env[k].value) ELSE env[k].value

\* C23: for the endpoint, the timeout and the log level, when the
\* environment and the configuration file both supply a value, get
\* returns the environment's value.
C23_EnvOverridesFile ==
    (fn.op = "ConfigManager" /\ fn.at = "done" /\ fn.raised = "none")
    => \A k \in Settings :
         (fn.env[k].present /\ fn.file[k].present)
         => get(fn.config, k) = FromEnv(fn.env, k)

\* what the code does: a value of the file wins over the environment,
\* and the environment's value is returned only when the file has none
FileOverridesEnv ==
    (fn.op = "ConfigManager" /\ fn.at = "done" /\ fn.raised = "none")
    => \A k \in Settings :
         /\ fn.file[k].present => get(fn.config, k) = fn.file[k].value
         /\ (fn.env[k].present /\ ~fn.file[k].present)
            => get(fn.config, k) = FromEnv(fn.env, k)

\* C24: get_status can be called in every state, each of its steps can be
\* taken whatever step start_workflow is at, and none of its steps changes
\* a field of the session.
C24_GetStatusReadOnly ==
    /\ [](IF gs.at = "idle" THEN ENABLED GetStatusCall
                            ELSE ENABLED GetStatusStep)
    /\ [][gs' # gs => self' = self]_vars

\* a get_status call returns a snapshot it took while start_workflow was
\* polling
C24_Witness ==
    /\ gs.at = "return"
    /\ gs.info.status = STATUS_EXECUTING_WORKFLOW
    /\ pc[MainStarter] = "poll"

\* the progress claimed for each status of a run
ClaimedProgress ==
    [s \in {STATUS_PREPARING, STATUS_EXTRACTING_FRAMES,
            STATUS_PREPROCESSING_FRAMES, STATUS_LOCAL_REPLACEMENT,
            STATUS_UPLOADING_FRAMES, STATUS_EXECUTING_WORKFLOW,
            STATUS_DOWNLOADING_RESULTS, STATUS_COMPOSING_VIDEO,
            STATUS_COMPLETED} |->
        CASE s \in {STATUS_PREPARING, STATUS_EXTRACTING_FRAMES} -> 0
          [] s = STATUS_PREPROCESSING_FRAMES -> 20
          [] s \in {STATUS_LOCAL_REPLACEMENT, STATUS_UPLOADING_FRAMES} -> 40
          [] s = STATUS_EXECUTING_WORKFLOW -> 60
          [] s = STATUS_DOWNLOADING_RESULTS -> 80
          [] s = STATUS_COMPOSING_VIDEO -> 90
          [] s = STATUS_COMPLETED -> 100]

\* C25: in a run without concurrent cancel the progress is the one tied
\* to the status (0 in preparing and extracting_frames, 20 in
\* preprocessing_frames, 40 in local_replacement_preprocessing and
\* uploading_frames, 60 in executing_workflow, 80 in downloading_results,
\* 90 in composing_video, 100 in completed), and it lies in [0, 100].
C25_ProgressTiedToStatus ==
    /\ self.progress \in 0..100
    /\ self.status \in DOMAIN ClaimedProgress
       => self.progress = ClaimedProgress[self.status]

\* the progress written after each status of the pipeline, before the
\* next status is written
ProgressAhead ==
    [s \in DOMAIN ClaimedProgress |->
        CASE s = STATUS_PREPARING -> 0
          [] s = STATUS_EXTRACTING_FRAMES -> 20
          [] s = STATUS_PREPROCESSING_FRAMES -> 40
          [] s = STATUS_LOCAL_REPLACEMENT -> 40
          [] s = STATUS_UPLOADING_FRAMES -> 60
          [] s = STATUS_EXECUTING_WORKFLOW -> 80
          [] s = STATUS_DOWNLOADING_RESULTS -> 90
          [] s = STATUS_COMPOSING_VIDEO -> 100
          [] s = STATUS_COMPLETED -> 100]

\* what the code keeps of C25: the progress lies in [0, 100], it is the
\* claimed one when a status has just been written, and otherwise the one
\* of the status that is written next
ProgressTiedOrAhead ==
    /\ self.progress \in 0..100
    /\ self.status \in DOMAIN ClaimedProgress
       => self.progress \in {ClaimedProgress[self.status],
                             ProgressAhead[self.status]}

\* the positions of a call inside wait_for_task_completion
PollLoop == {"poll", "poll_sleep"}

\* the remote statuses that end the poll loop
TerminalRemote == {"completed", "failed", "canceled"}

\* the call leaves the poll loop only from a status request, and only when
\* the request raised or its answer holds a terminal status; inside the
\* loop the session stays in executing_workflow
StaysInPollLoop ==
    LET t == MainStarter
    IN  /\ pc[t] \in PollLoop =>
             /\ self' = self
             /\ self.status = STATUS_EXECUTING_WORKFLOW
        /\ (pc[t] \in PollLoop /\ pc'[t] \notin PollLoop) =>
             /\ pc[t] = "poll"
             /\ \/ exc'[t] = "status request failed"
                \/ task_status'[t].status \in TerminalRemote

\* from some point on every status request is answered with a terminal
\* status
AnswersTerminal ==
    pc[MainStarter] = "poll"
    => task_status'[MainStarter].status \in TerminalRemote

\* C26: the poll loop has no timeout and no iteration cap: with no cancel
\* requested the call stays in executing_workflow and in the loop as long
\* as every status request returns a non-terminal status; and if the
\* remote status is terminal from some point on, start_workflow
\* eventually returns or raises.
C26_PollsUntilTerminal ==
    /\ [][StaysInPollLoop]_vars
    /\ <>[][AnswersTerminal]_vars
         => (pc[MainStarter] \in PollLoop ~> pc[MainStarter] = "idle")

\* the call is about to poll again after an answer that was not terminal
C26_Witness ==
    /\ pc[MainStarter] = "poll"
    /\ task_status[MainStarter].status = "running"
    /\ self.status = STATUS_EXECUTING_WORKFLOW

\* preprocess_frames alone: the frames whose transform raised are the
\* frames left out, and every other frame is returned once
FailedFramesLeftOut ==
    (fn.op = "preprocess_frames" /\ fn.at = "done")
    => /\ Len(fn.processed_paths) =
            Len(fn.frame_paths) - Cardinality(fn.failed)
       /\ Range(fn.processed_paths) =
            {Frame(i, "processed_frames") :
                i \in DOMAIN fn.frame_paths \ fn.failed}

\* the preprocessing step of the call has ended
Preprocessed(t) ==
    /\ STATUS_PREPROCESSING_FRAMES \in Range(visited[t])
    /\ pc[t] \notin {"preprocess", "idle"}
    /\ exc[t] # "preprocess_frames failed"

\* ... and left out at least one of the extracted frames
FrameDropped(t) ==
    /\ Preprocessed(t)
    /\ Len(self.processed_frame_paths) < Len(self.frame_paths)

\* C27: a frame whose transform fails is left out of
\* processed_frame_paths, every frame returned is the processed version of
\* a different extracted frame, the preprocessing step does not send the
\* call to its failure handler for it, and as long as one frame is left
\* the call does not fail for want of frames.
C27_PartialResult ==
    LET t == MainStarter
        p == self.processed_frame_paths
    IN  /\ Preprocessed(t)
           => /\ \A i \in DOMAIN p :
                    /\ p[i].dir \in {"processed_frames", "replaced_frames"}
                    /\ \E j \in DOMAIN self.frame_paths :
                          self.frame_paths[j].idx = p[i].idx
              /\ \A i, j \in DOMAIN p : p[i].idx = p[j].idx => i = j
        /\ (FrameDropped(t) /\ p # <<>>)
           => exc[t] # "no frames in directory"

\* one of two extracted frames was left out and the call has uploaded the
\* other and is waiting for the remote task
C27_Witness ==
    /\ FrameDropped(MainStarter)
    /\ Len(self.frame_paths) = 2
    /\ Len(self.processed_frame_paths) = 1
    /\ pc[MainStarter] = "poll"
    /\ Len(uploaded[MainStarter].frames) = 1

\* C27 as stated: whenever the transform of a frame failed, the call does
\* not fail because of it.
C27_NeverFailsForIt ==
    FrameDropped(MainStarter)
    => exc[MainStarter] # "no frames in directory"

\* the order the claim gives the categories
CategoryOrder == <<"person", "background", "product">>

\* what the log of a batch call holds for the frame idx
EntriesOf(call, idx) == SelectSeq(call.log, LAMBDA e : e.idx = idx)

\* the categories of a sequence of log entries, in the order they ran
TypesOf(entries) == [m \in DOMAIN entries |-> entries[m].type]

\* the image the claim has the m-th category of a frame take: the output
\* of the last category applied before it, the original frame when none
ClaimedInput(entries, m, original) ==
    LET applied == {a \in 1..(m - 1) : entries[a].outcome = "applied"}
        last == CHOOSE a \in applied : \A b \in applied : b <= a
    IN  IF applied = {} THEN original
        ELSE TempFrame(entries[last].type, original.idx)

\* C28: in a batch call every enabled category runs once on every frame,
\* in the order person, background, product, whatever happened to the
\* categories before it; each takes the output of the last category that
\* was applied to the frame, or the original frame; and once a frame is
\* done its entry of the result list, at the frame's own index, names a
\* file that holds the frame with exactly the applied categories replaced
C28_ReplacementChain ==
    fn.op = "process_frames_batch" =>
      \A j \in DOMAIN fn.frame_paths :
        LET original == fn.frame_paths[j]
            entries == EntriesOf(fn, original.idx)
            enabled == SelectSeq(CategoryOrder, LAMBDA c : fn.config[c])
            applied == SelectSeq(entries, LAMBDA e : e.outcome = "applied")
        IN  /\ Len(entries) <= Len(enabled)
            /\ TypesOf(entries) = SubSeq(enabled, 1, Len(entries))
            /\ \A m \in DOMAIN entries :
                 entries[m].input = ClaimedInput(entries, m, original)
            /\ j < fn.i =>
                 /\ TypesOf(entries) = enabled
                 /\ j \in DOMAIN fn.processed_paths
                 /\ FilesAt(fn.files, fn.processed_paths[j]) =
                      {[path |-> Frame(original.idx, "replaced_frames"),
                        image |-> Image(original.idx, TypesOf(applied))]}

\* a batch of two frames with every category enabled has returned; on the
\* second frame the person was replaced, the background mask failed and
\* the product was replaced
C28_Witness ==
    /\ fn.op = "process_frames_batch"
    /\ fn.at = "done"
    /\ Len(fn.processed_paths) = 2
    /\ LET entries == EntriesOf(fn, 2)
       IN  /\ Len(entries) = 3
           /\ entries[1].outcome = "applied"
           /\ entries[2].outcome = "no mask"
           /\ entries[3].outcome = "applied"
           /\ entries[3].input = TempFrame("person", 2)
    /\ [path |-> Frame(2, "replaced_frames"),
        image |-> Image(2, <<"person", "product">>)] \in fn.files

\* C29: whenever frames_to_video is about to be called, the sequence it is
\* given is self.processed_frame_paths, frame for frame and in the same
\* order, whether the remote answer carried a replaced_frames entry or not
C29_ComposerInput ==
    \A t \in Starters :
        pc[t] \in {"progress90", "compose_status", "compose"}
            => result_frame_paths[t] = self.processed_frame_paths

\* the composer is about to be called with a frame in a session with an
\* enabled category whose remote answer supplied a list of replaced frames
C29_Witness ==
    /\ pc[MainStarter] = "compose"
    /\ has_replacement[MainStarter]
    /\ task_status[MainStarter].replaced_frames = "frames"
    /\ self.processed_frame_paths # <<>>
    /\ result_frame_paths[MainStarter] = self.processed_frame_paths

C31_OutputOnlyComposed ==
    [][\A f \in fs_output' \ fs_output :
         \E t \in Starters :
            /\ pc[t] = "compose"
            /\ f.session = self.workflow_id
            /\ f.path = self.output_video_path
            /\ STATUS_COMPOSING_VIDEO \in Range(visited[t])
            /\ "get_task_status" \in requests[t]
            /\ task_status[t].status = "completed"]_vars

\* the session's output video has just been written by the composer
C31_Witness ==
    /\ pc[MainStarter] = "progress100"
    /\ \E f \in fs_output : /\ f.session = self.workflow_id
                            /\ f.path = self.output_video_path
    /\ task_status[MainStarter].status = "completed"

\* a step of starter t inside a call whose input video does not exist
MissingInputStep(t) == pc'[t] # pc[t] /\ arg_input'[t] = MissingVideo

\* what a call made with a missing input video leaves alone: no uuid is
\* drawn, no directory created, no frame list written, no request sent
NothingAllocated(t) ==
    /\ uuid_count' = uuid_count
    /\ fs_dirs' = fs_dirs
    /\ self'.workflow_id = self.workflow_id
    /\ self'.working_dir = self.working_dir
    /\ self'.frame_paths = self.frame_paths
    /\ requests'[t] = {}
    /\ remote_tasks' = remote_tasks

\* C32: a start_workflow call whose input video does not exist allocates
\* nothing and sends nothing, and when it ends it has raised and the
\* status is failed
C32_MissingInput ==
    [][\A t \in Starters :
         MissingInputStep(t) =>
            /\ NothingAllocated(t)
            /\ pc'[t] = "idle" =>
                 /\ outcome'[t] = "raised"
                 /\ self'.status = STATUS_FAILED]_vars

\* the same, with the status at the end of the call failed, or canceled by
\* a cancel_workflow call that passed its guard before the failure was set
MissingInputFailedOrCanceled ==
    [][\A t \in Starters :
         MissingInputStep(t) =>
            /\ NothingAllocated(t)
            /\ pc'[t] = "idle" =>
                 /\ outcome'[t] = "raised"
                 /\ self'.status \in {STATUS_FAILED, STATUS_CANCELED}]_vars

\* C33: whenever get_status returns a terminal status, the dictionary it
\* returns holds ended_at
C33_TerminalWithEndedAt ==
    gs.at = "return" /\ gs.info.status \in TerminalStatuses
        => gs.info.ended_at # None

\* cancel_workflow has returned success for the session the instance holds
CanceledWithSuccess ==
    /\ cpc = "idle"
    /\ cancel_result = "success"
    /\ self.workflow_id # None
    /\ cancel_workflow_id = self.workflow_id

\* C34: once cancel_workflow has returned success for the session, a step
\* of the start_workflow call that runs the session submits no task,
\* uploads no frame, sends no status request and writes no output video
C34_NothingAfterCancel ==
    [][\A t \in Starters :
         /\ CanceledWithSuccess
         /\ pc[t] # "idle"
         /\ pc'[t] # pc[t]
         => /\ pc[t] \notin {"submit", "upload", "poll"}
            /\ requests'[t] \ requests[t] = {} \/
                 requests'[t] \ requests[t] = {"test_connection"}
            /\ remote_tasks' = remote_tasks
            /\ uploaded' = uploaded
            /\ fs_output' = fs_output]_vars

\* the last call of starter t has ended
CallEnded(t) == pc[t] = "idle" /\ outcome[t] \in {"returned", "raised"}

\* C35: once a start_workflow call has ended, the session id is the one
\* the call drew (none when its input video was missing), the task id is
\* one the call was given (none when it submitted nothing), and after a
\* call with a missing input video the progress is 0, the frame lists are
\* empty and no path of an earlier session is left
C35_FieldsOfLastCall ==
    \A t \in Starters :
        CallEnded(t) =>
            /\ self.workflow_id =
                 IF arg_input[t] = MissingVideo THEN None ELSE uuid_count
            /\ "submit" \notin requests[t] => self.task_id = None
            /\ arg_input[t] = MissingVideo =>
                 /\ self.progress = 0
                 /\ self.frame_paths = <<>>
                 /\ self.processed_frame_paths = <<>>
                 /\ self.working_dir = None
                 /\ self.input_video_path = NoPath
                 /\ self.output_video_path = NoPath

\* the same for the calls whose input video exists
FieldsOfLastCallThatStarted ==
    \A t \in Starters :
        CallEnded(t) /\ arg_input[t] # MissingVideo =>
            /\ self.workflow_id = uuid_count
            /\ "submit" \notin requests[t] => self.task_id = None
            /\ self.input_video_path = arg_input[t]

\* C36: no step of a start_workflow call changes the workflow_config
\* mapping the caller passed
C36_ConfigUntouched ==
    [][\A t \in Starters :
         pc[t] # "idle" => arg_config'[t] = arg_config[t]]_vars

\* the same for the calls without an enabled category and those whose
\* configuration has no 'preprocess' group
ConfigUntouchedWithoutGroup ==
    [][\A t \in Starters :
         pc[t] # "idle" /\ ~(has_replacement[t] /\ arg_config[t].preprocess.present)
            => arg_config'[t] = arg_config[t]]_vars

\* C37: a remote cancel is sent by a step of cancel_workflow only, and a
\* step of start_workflow inside a failure handler sends no remote cancel
\* and no other request to the remote service
C37_CancelOnlyFromCancel ==
    [][/\ remote_cancels' # remote_cancels => cpc = "remote" /\ cpc' = "idle"
       /\ \A t \in Starters :
            pc[t] \in FailurePcs /\ pc'[t] # pc[t]
               => /\ remote_cancels' = remote_cancels
                  /\ requests'[t] = requests[t]
                  /\ uploaded' = uploaded
                  /\ remote_tasks' = remote_tasks]_vars

\* a call that was given a task id has failed and is about to raise, and
\* no cancel was sent for the task
C37_Witness ==
    /\ pc[MainStarter] = "raise"
    /\ self.task_id # None
    /\ "submit" \in requests[MainStarter]
    /\ self.status = STATUS_FAILED
    /\ self.task_id \notin remote_cancels

\* the output video of the session, at the path start_workflow gave it or
\* at the path requested with --output
SessionOutputKept ==
    \E f \in fs_output :
        /\ f.session = self.workflow_id
        /\ f.path \in {self.output_video_path, RequestedOutput}

C39_UpdateKeepsOldValueOnError ==
    (fn.op = "update" /\ fn.at = "got")
    => /\ fn.raised = "none" => fn.got = fn.value
       /\ fn.raised = "ValueError" => fn.config = fn.before

\* what the code does: the value is stored before it is validated, and it
\* stays stored when the validation raises
InvalidValueIsStored ==
    (fn.op = "update" /\ fn.at = "got" /\ fn.raised # "TypeError")
    => /\ fn.got = fn.value
       /\ fn.config = update(fn.before, fn.key, fn.value)

\* a key that leads through a setting that is no mapping raises TypeError
\* and changes nothing
BlockedKeyChangesNothing ==
    (fn.op = "update" /\ fn.at = "got" /\ fn.raised = "TypeError")
    => fn.config = fn.before /\ fn.got = NoneValue

====
